---- MODULE Spec2Model ----
(***************************************************************************)
(* The session/event pipeline of the chat relay: EventPublisher,           *)
(* AIEventConsumer, MockedAIAgent, ConnectionManager and the store calls   *)
(* the consumer makes.  The consumer is one asyncio task; every action of  *)
(* it runs from one real suspension point (an awaited I/O call) to the     *)
(* next.  Session tasks (connect, disconnect, publish) run in between.     *)
(* Further specifications over the same variables take the RateLimiter,    *)
(* the registry, the session handler handle_websocket_connection and the   *)
(* store ChatDatabase on their own.                                        *)
(***************************************************************************)
EXTENDS Integers, Sequences, FiniteSets, TLC

VARIABLES
    active_connections, \* ConnectionManager.active_connections (a list)
    session,            \* per channel: "new", "open" (handler running), "closed"
    queue,              \* the asyncio.Queue shared by publisher and consumer
    nseq,               \* number of events put on the queue so far
    npub,               \* number of events published by callers other than the agent
    cpc,                \* where the consumer task is suspended
    event,              \* the event the consumer is handling
    it,                 \* list iterator of the running broadcast: items yielded
    connection,         \* loop variable of the running broadcast
    disconnected,       \* local list `disconnected` of the running broadcast
    message,            \* payload of the running broadcast
    exclude,            \* channel the running broadcast skips, or None
    users,              \* usernames with a row in table users
    messages,           \* rows of table messages, in insertion order
    handled,            \* the events queue.get has returned, in order
    changed,            \* a session joined or left while the broadcast on record
                        \* in trace was suspended in a send
    trace,              \* what the consumer task did for its latest event
    user_limits,        \* RateLimiter.user_limits: user_id -> window and cooldown
    clock,              \* what time.time() returns, in ticks
    result,             \* the latest direct call of a RateLimiter, ChatDatabase
                        \* or ConnectionManager method, or the latest frame a
                        \* session handler received: arguments, state before,
                        \* return
    handler,            \* per channel, its handle_websocket_connection call:
                        \* where it is suspended, its arguments and locals, and
                        \* what it has done so far
    consumer,           \* the class of the consumer object
    config,             \* the RateLimiter's MESSAGES_PER_WINDOW, WINDOW_SECONDS
                        \* and COOLDOWN_SECONDS, as its constructor set them
    allowed             \* per user_id, the times at which is_rate_limited
                        \* answered not limited

limiter_vars == <<user_limits, clock, result>>

vars == <<active_connections, session, queue, nseq, npub, cpc, event, it,
          connection, disconnected, message, exclude, users, messages, handled,
          changed, trace, user_limits, clock, result, handler, consumer,
          config, allowed>>

(***************************************************************************)
(* Bounds and universes                                                    *)
(***************************************************************************)
MaxPublish == 2

\* resolution of the clock: ticks in one second
TicksPerSecond == 2

\* the clock at construction, and how many ticks pass
StartTime == 10
MaxTicks == 5

Channels == {"ws1", "ws2"}

\* the WebSocket objects of the registry's direct callers
Handles == {"ws1", "ws2", "ws3", "ws4"}

\* the user_ids the rate limiter is asked about
UserIds == {"u1", "u2"}

\* the max_idle_seconds arguments of cleanup_old_entries
MaxIdleInputs == {1, 100}

\* Python's None, the empty string and a missing dict key
None == "<None>"

EVENT_TYPE_USER_MESSAGE == "user_message"
EVENT_TYPE_AI_REQUEST == "ai_request"
EVENT_TYPE_AI_RESPONSE == "ai_response"
MESSAGE_TYPE_USER == "user_message"
MESSAGE_TYPE_AI_RESPONSE == "ai_response"
CONVERSATION_DEFAULT == "default"

(***************************************************************************)
(* Python helpers: dict.get, truthiness, list membership and removal       *)
(***************************************************************************)
\* dict.get(key, default)
Get(d, key, default) == IF key \in DOMAIN d THEN d[key] ELSE default

\* (a test that takes the empty string for true)
TruthyUnlessNone(x) == x # None

\* `if x` for a str or None
Truthy(x) == x # "" /\ x # None

InList(list, x) == \E i \in 1..Len(list) : list[i] = x

FirstIndex(list, x) == CHOOSE i \in 1..Len(list) :
    list[i] = x /\ \A j \in 1..(i - 1) : list[j] # x

\* (a removal that drops the last item, as list.pop() does)
ListRemoveLast(list, x) == SubSeq(list, 1, Len(list) - 1)

\* list.remove(x): drops the first occurrence
ListRemove(list, x) ==
    LET k == FirstIndex(list, x)
    IN  [i \in 1..(Len(list) - 1) |-> IF i < k THEN list[i] ELSE list[i + 1]]

(***************************************************************************)
(* Sessions and the events they publish                                    *)
(***************************************************************************)
Username(ws) == IF ws = "ws1" THEN "alice" ELSE "bob"

\* the user_id the store hands out for a username (an opaque uuid4 string)
UserIdOf(username) ==
    CASE username = "alice" -> "uuid-alice"
      [] username = "bob" -> "uuid-bob"
      [] OTHER -> "uuid-AIBot"

\* dataclass instances built by parse_message_event for a session's frame
SessionEvents ==
    {[cls |-> "UserMessageEvent", type |-> EVENT_TYPE_USER_MESSAGE,
      user_id |-> UserIdOf(Username(ws)), sender |-> Username(ws),
      text |-> "Hello", sender_ws |-> ws] : ws \in Channels}
    \cup
    {[cls |-> "AIRequestEvent", type |-> EVENT_TYPE_AI_REQUEST,
      user_id |-> UserIdOf(Username(ws)), sender |-> Username(ws),
      text |-> "What is Python?", sender_ws |-> ws] : ws \in Channels}

\* plain dicts handed to publish: events without a user_id, without an
\* origin channel, with a text that is not a string, with an unrouted type
DictEvents ==
    {[cls |-> "dict", type |-> EVENT_TYPE_USER_MESSAGE, user_id |-> "",
      sender |-> "User", text |-> "Hello", sender_ws |-> ws] :
        ws \in Channels \cup {None}}
    \cup
    {[cls |-> "dict", type |-> EVENT_TYPE_AI_REQUEST, user_id |-> "",
      sender |-> "User", text |-> t, sender_ws |-> "ws1"] :
        t \in {"What is Python?", "Tell me a joke", None}}
    \cup
    {[cls |-> "dict", type |-> EVENT_TYPE_AI_RESPONSE, text |-> "Response"],
     [cls |-> "dict", type |-> "typing"]}

PublishInputs == SessionEvents \cup DictEvents

NoEvent == [type |-> None, seq |-> 0, of |-> 0]

(***************************************************************************)
(* EventPublisher                                                          *)
(***************************************************************************)
\* the dict publish builds from a dataclass instance, or the dict itself
EventDict(e) ==
    IF e.cls \in {"UserMessageEvent", "AIRequestEvent"}
    THEN [type |-> e.type, user_id |-> e.user_id, sender |-> e.sender,
          text |-> e.text, sender_ws |-> e.sender_ws]
    ELSE IF e.cls = "AIResponseEvent"
    THEN [type |-> e.type, text |-> e.text,
          original_message |-> e.original_message,
          detected_intent |-> e.detected_intent]
    ELSE [k \in DOMAIN e \ {"cls"} |-> e[k]]

\* the queue after put: FIFO, unbounded.  seq (the position in publication
\* order) and of (the request a reply answers) identify the event object.
QueuePut(q, e, n, of) == Append(q, EventDict(e) @@ [seq |-> n, of |-> of])

\* (a queue that hands out its newest item)
QueueGetNewest(q) == q[Len(q)]

\* the item queue.get returns, and the queue it leaves
QueueGetItem(q) == Head(q)
QueueGetRest(q) == Tail(q)

(***************************************************************************)
(* The store (ChatDatabase) as the consumer uses it                        *)
(***************************************************************************)
\* the dataclass Message: these five attributes and no other
Message(sender_id, sender, text, msg_type, conversation_id) ==
    [sender_id |-> sender_id, sender |-> sender, text |-> text,
     msg_type |-> msg_type, conversation_id |-> conversation_id]

\* save_message builds its INSERT parameters from message.conversation_id,
\* .sender_id, .sender_name, .text and .msg_type; reading an attribute the
\* object does not have raises AttributeError before anything is written
SaveMessageRaises(m) ==
    \E a \in {"conversation_id", "sender_id", "sender_name", "text", "msg_type"} :
        a \notin DOMAIN m

\* table messages after the INSERT and commit; created_at defaults to
\* CURRENT_TIMESTAMP, the time in whole seconds
SaveMessage(rows, m) ==
    Append(rows, [conversation_id |-> m.conversation_id,
                  sender_id |-> m.sender_id, sender_name |-> m.sender_name,
                  text |-> m.text, message_type |-> m.msg_type,
                  created_at |-> clock \div TicksPerSecond])

\* the INSERT violates a FOREIGN KEY constraint: no such user, or no such
\* conversation (init creates the default one and nothing creates another)
ForeignKeyFails(m, known) ==
    \/ m.sender_id \notin known
    \/ m.conversation_id # CONVERSATION_DEFAULT

\* rows with r put after every row that is not newer than it
InsertByCreatedAt(sorted, r) ==
    LET k == Cardinality({i \in 1..Len(sorted) : sorted[i].created_at <= r.created_at})
    IN  SubSeq(sorted, 1, k) \o <<r>> \o SubSeq(sorted, k + 1, Len(sorted))

\* ORDER BY created_at ASC over the index (conversation_id, created_at):
\* rows of one second come in the order of their insertion
RECURSIVE OrderByCreatedAt(_)
OrderByCreatedAt(rows) ==
    IF rows = <<>> THEN <<>>
    ELSE InsertByCreatedAt(OrderByCreatedAt(SubSeq(rows, 1, Len(rows) - 1)),
                           rows[Len(rows)])

\* LIMIT ?
Limit(rows, limit) == SubSeq(rows, 1, IF limit < Len(rows) THEN limit ELSE Len(rows))

\* the default of get_conversation_history's limit
HISTORY_LIMIT == 50

\* (a history that lists the newest message first)
GetConversationHistoryNewestFirst(rows, conversation_id, limit) ==
    LET mine == Limit(OrderByCreatedAt(
                    SelectSeq(rows, LAMBDA r : r.conversation_id = conversation_id)),
                      limit)
    IN  [i \in 1..Len(mine) |->
            [sender |-> mine[Len(mine) + 1 - i].sender_name,
             text |-> mine[Len(mine) + 1 - i].text,
             type |-> mine[Len(mine) + 1 - i].message_type,
             timestamp |-> mine[Len(mine) + 1 - i].created_at]]

\* get_conversation_history(conversation_id, limit)
GetConversationHistory(rows, conversation_id, limit) ==
    LET mine == Limit(OrderByCreatedAt(
                    SelectSeq(rows, LAMBDA r : r.conversation_id = conversation_id)),
                      limit)
    IN  [i \in 1..Len(mine) |->
            [sender |-> mine[i].sender_name, text |-> mine[i].text,
             type |-> mine[i].message_type, timestamp |-> mine[i].created_at]]

\* what table messages may hold when the server starts
StoredMessages ==
    {<<>>,
     <<[conversation_id |-> CONVERSATION_DEFAULT, sender_id |-> "uuid-alice",
        sender_name |-> "alice", text |-> "Hello",
        message_type |-> MESSAGE_TYPE_USER, created_at |-> 0]>>}

\* table users after get_or_create_user(username)
GetOrCreateUser(known, username) == known \cup {username}

(***************************************************************************)
(* MockedAIAgent                                                           *)
(***************************************************************************)
INTENTS == <<"python", "async", "websocket", "event", "database">>

\* the keywords of the intent table that occur in message.lower()
KeywordsIn(text) ==
    IF text = "What is Python?" THEN {"python", "py"} ELSE {}

Keywords(intent) ==
    CASE intent = "python" -> {"python", "py", "django", "flask", "fastapi"}
      [] intent = "async" -> {"async", "await", "asyncio", "concurrent", "asynchronous"}
      [] intent = "websocket" -> {"websocket", "ws://", "real-time", "bidirectional", "connection"}
      [] intent = "event" -> {"event", "queue", "publisher", "consumer", "event-driven"}
      [] intent = "database" -> {"database", "sqlite", "sql", "store", "persistence"}

\* message.lower() raises AttributeError when the text is not a str
DetectIntentRaises(text) == text = None

DetectIntent(text) ==
    LET hits == {i \in 1..Len(INTENTS) : Keywords(INTENTS[i]) \cap KeywordsIn(text) # {}}
    IN  IF hits = {} THEN "default"
        ELSE INTENTS[CHOOSE i \in hits : \A j \in hits : i <= j]

GetResponse(intent, original_message) ==
    IF intent = "python"
    THEN "Python is a versatile, high-level programming language ..."
    ELSE IF intent \in {INTENTS[i] : i \in 1..Len(INTENTS)}
    THEN "response of another intent"
    ELSE "I'm a mocked AI assistant in development. You asked about: 'Tell me a joke'. ..."

\* the AIResponseEvent process_request publishes on success
ResponseEvent(text) ==
    [cls |-> "AIResponseEvent", type |-> EVENT_TYPE_AI_RESPONSE,
     text |-> GetResponse(DetectIntent(text), text),
     original_message |-> text, detected_intent |-> DetectIntent(text)]

\* the AIResponseEvent process_request publishes from its except branch
ErrorEvent ==
    [cls |-> "AIResponseEvent", type |-> EVENT_TYPE_AI_RESPONSE,
     text |-> "Error processing request: 'NoneType' object has no attribute 'lower'",
     original_message |-> "", detected_intent |-> ""]

(***************************************************************************)
(* The consumer task.  Its state is the record Cur; each operator below    *)
(* takes the state at one point of the code and yields the state at the    *)
(* next suspension point.                                                  *)
(***************************************************************************)
Cur == [active_connections |-> active_connections, queue |-> queue,
        nseq |-> nseq, cpc |-> cpc, event |-> event, it |-> it,
        connection |-> connection, disconnected |-> disconnected,
        message |-> message, exclude |-> exclude, users |-> users,
        messages |-> messages, handled |-> handled, changed |-> changed,
        trace |-> trace]

Becomes(s) ==
    /\ active_connections' = s.active_connections
    /\ queue' = s.queue
    /\ nseq' = s.nseq
    /\ cpc' = s.cpc
    /\ event' = s.event
    /\ it' = s.it
    /\ connection' = s.connection
    /\ disconnected' = s.disconnected
    /\ message' = s.message
    /\ exclude' = s.exclude
    /\ users' = s.users
    /\ messages' = s.messages
    /\ handled' = s.handled
    /\ changed' = s.changed
    /\ trace' = s.trace

NoMessage == [sender |-> None, text |-> None]

\* one entry of the trace: what was done, for which event, on which channel
\* (conns: the registry when a broadcast is called and when it returns)
Entry(op, ev, ch, msg, kind, ok, conns) ==
    [op |-> op, ev |-> ev, ch |-> ch, msg |-> msg, kind |-> kind, ok |-> ok,
     conns |-> conns]

Log(s, op, ch, msg, kind, ok) ==
    [s EXCEPT !.trace = Append(@, Entry(op, s.event.seq, ch, msg, kind, ok,
                                        IF op \in {"broadcast", "broadcast_except",
                                                    "return"}
                                        THEN s.active_connections ELSE <<>>))]

\* the handling the trace records has ended: task_done, or the task died
Ended(tr) == tr # <<>> /\ tr[Len(tr)].op \in {"task_done", "raise"}

\* queue.get returned s.event: the trace starts over once the handling it
\* records has ended
LogGet(s) ==
    [s EXCEPT !.handled = Append(@, [seq |-> s.event.seq,
                                    sender_ws |-> Get(s.event, "sender_ws", None)]),
              !.changed = FALSE,
              !.trace = Append(IF Ended(@) THEN <<>> ELSE @,
                               Entry("get", s.event.seq, None, NoMessage, None, TRUE,
                                     <<>>))]

\* consume: handle_event returned, task_done, back to queue.get
TaskDone(s) ==
    [Log(s, "task_done", None, NoMessage, None, TRUE) EXCEPT
        !.cpc = "get", !.it = 0, !.connection = None,
        !.disconnected = <<>>, !.message = NoMessage, !.exclude = None]

\* an exception leaves handle_event and consume: the task ends
Raise(s) ==
    [Log(s, "raise", None, NoMessage, None, FALSE) EXCEPT
        !.cpc = "dead", !.it = 0, !.connection = None,
        !.disconnected = <<>>, !.message = NoMessage, !.exclude = None]

\* publisher.publish called by the agent while it answers s.event
AgentPublish(s, e) ==
    [s EXCEPT !.queue = QueuePut(@, e, s.nseq + 1, s.event.seq),
              !.nseq = @ + 1]

\* process_request up to asyncio.sleep, or through its except branch
ProcessRequest(s) ==
    LET user_message == Get(s.event, "text", "")
        t == Log(s, "process_request", None, NoMessage, None, TRUE)
    IN  IF DetectIntentRaises(user_message)
        THEN TaskDone(AgentPublish(t, ErrorEvent))
        ELSE [t EXCEPT !.cpc = "sleep"]

\* process_request after asyncio.sleep
AfterSleep(s) ==
    TaskDone(AgentPublish(s, ResponseEvent(Get(s.event, "text", ""))))

\* handle_event after handle_user_message / handle_ai_response returned
AfterBroadcast(s) ==
    IF s.event.type = EVENT_TYPE_AI_REQUEST THEN ProcessRequest(s)
    ELSE TaskDone(s)

(***************************************************************************)
(* ConnectionManager                                                       *)
(***************************************************************************)
\* active_connections after connect(websocket)
ConnectList(list, ws) == Append(list, ws)

\* active_connections after disconnect(websocket)
DisconnectList(list, ws) == IF InList(list, ws) THEN ListRemove(list, ws) ELSE list

\* the clean-up loop: disconnect every connection in `disconnected`
RECURSIVE DisconnectAll(_, _)
DisconnectAll(list, gone) ==
    IF gone = <<>> THEN list
    ELSE DisconnectAll(DisconnectList(list, Head(gone)), Tail(gone))

\* (an iterator that forgets the exclusion)
NextIndexOfAll(list, from, ex) == IF from < Len(list) THEN from + 1 ELSE 0

\* (an iterator that steps over one connection too many)
NextIndexSkipping(list, from, ex) ==
    LET rest == {i \in (from + 2)..Len(list) : list[i] # ex}
    IN  IF rest = {} THEN 0 ELSE CHOOSE i \in rest : \A j \in rest : i <= j

\* the position the list iterator yields next for the send: the first
\* position after `from` whose connection is not the excluded one; 0 when
\* the iterator is exhausted
NextIndex(list, from, ex) ==
    LET rest == {i \in (from + 1)..Len(list) : list[i] # ex}
    IN  IF rest = {} THEN 0 ELSE CHOOSE i \in rest : \A j \in rest : i <= j

\* (an except branch that only prints the error)
SendFailedForgets(gone, ws) == gone

\* the except branch of the send: the connection is noted for removal
SendFailed(gone, ws) == Append(gone, ws)

\* a send_text call returned (ok) or raised
AfterSend(s, ok) ==
    [Log(s, "send", s.connection, s.message, None, ok) EXCEPT
        !.disconnected = IF ok THEN @ ELSE SendFailed(@, s.connection)]

\* the for loop from its next iteration to the next send_text, or to the
\* end of broadcast / broadcast_except and on into the caller
ContinueSweep(s) ==
    LET i == NextIndex(s.active_connections, s.it, s.exclude)
    IN  IF i # 0
        THEN [s EXCEPT !.it = i, !.connection = s.active_connections[i],
                       !.cpc = "send"]
        ELSE AfterBroadcast(
               Log([s EXCEPT !.active_connections = DisconnectAll(@, s.disconnected)],
                   "return", None, NoMessage, None, TRUE))

Broadcast(s, msg) ==
    ContinueSweep([Log(s, "broadcast", None, msg, None, TRUE) EXCEPT
                     !.it = 0, !.disconnected = <<>>, !.message = msg,
                     !.exclude = None, !.changed = FALSE])

BroadcastExcept(s, msg, ex) ==
    ContinueSweep([Log(s, "broadcast_except", ex, msg, None, TRUE) EXCEPT
                     !.it = 0, !.disconnected = <<>>, !.message = msg,
                     !.exclude = ex, !.changed = FALSE])

(***************************************************************************)
(* EventConsumer / AIEventConsumer handlers                                *)
(***************************************************************************)
HandleUserMessage(s) ==
    LET user_id == Get(s.event, "user_id", "")
        sender == Get(s.event, "sender", "")
        text == Get(s.event, "text", "")
        m == Message(user_id, sender, text, MESSAGE_TYPE_USER, CONVERSATION_DEFAULT)
        broadcast_message == [sender |-> sender, text |-> text]
        sender_ws == Get(s.event, "sender_ws", None)
        Out(t) == IF Truthy(sender_ws)
                  THEN BroadcastExcept(t, broadcast_message, sender_ws)
                  ELSE Broadcast(t, broadcast_message)
    IN  IF Truthy(user_id) /\ Truthy(sender)
        THEN IF SaveMessageRaises(m)
             THEN Raise(Log(s, "save_error", None, NoMessage, m.msg_type, FALSE))
             ELSE Out(Log([s EXCEPT !.messages = SaveMessage(@, m)], "save", None,
                          [sender |-> m.sender, text |-> m.text], m.msg_type, TRUE))
        ELSE Out(s)

\* handle_ai_response after get_or_create_user("AIBot") returned or raised
AfterGetUser(s, raised) ==
    LET text == Get(s.event, "text", "")
        m == Message(UserIdOf("AIBot"), "AIBot", text, MESSAGE_TYPE_AI_RESPONSE,
                     CONVERSATION_DEFAULT)
        broadcast_message == [sender |-> "AIBot", text |-> Get(s.event, "text", "")]
        u == [s EXCEPT !.users = GetOrCreateUser(@, "AIBot")]
    IN  IF raised
        THEN Broadcast(Log(s, "get_user_error", None, NoMessage, m.msg_type, FALSE),
                       broadcast_message)
        ELSE IF SaveMessageRaises(m)
        THEN Broadcast(Log(u, "save_error", None, NoMessage, m.msg_type, FALSE),
                       broadcast_message)
        ELSE Broadcast(Log([u EXCEPT !.messages = SaveMessage(@, m)], "save", None,
                           [sender |-> m.sender, text |-> m.text], m.msg_type, TRUE),
                       broadcast_message)

\* (a handle_event that takes every other type for a user message)
HandleEventRoutingAll(s) ==
    LET event_type == Get(s.event, "type", "")
    IN  IF event_type = EVENT_TYPE_AI_RESPONSE
        THEN [s EXCEPT !.cpc = "get_or_create_user"]
        ELSE HandleUserMessage(s)

\* EventConsumer.handle_event
EventConsumerHandleEvent(s) ==
    LET event_type == Get(s.event, "type", "")
    IN  IF event_type = EVENT_TYPE_USER_MESSAGE THEN HandleUserMessage(s)
        ELSE IF event_type = EVENT_TYPE_AI_RESPONSE
        THEN [s EXCEPT !.cpc = "get_or_create_user"]
        ELSE TaskDone(s)

\* AIEventConsumer.handle_event
HandleEvent(s) ==
    LET event_type == Get(s.event, "type", "")
    IN  IF event_type = EVENT_TYPE_USER_MESSAGE THEN HandleUserMessage(s)
        ELSE IF event_type = EVENT_TYPE_AI_REQUEST THEN HandleUserMessage(s)
        ELSE IF event_type = EVENT_TYPE_AI_RESPONSE
        THEN [s EXCEPT !.cpc = "get_or_create_user"]
        ELSE TaskDone(s)

\* (a consume loop that starts handle_event as a task of its own)
CanGetWhileHandling(pc) == pc # "dead"

\* consume may take the next event only from its queue.get
CanGet(pc) == pc = "get"

(***************************************************************************)
(* RateLimiter.  Times are counted in ticks of 1 / TicksPerSecond seconds. *)
(***************************************************************************)
MESSAGES_PER_WINDOW == 3
WINDOW_SECONDS == 1
COOLDOWN_SECONDS == 2

\* a number of seconds, in ticks
Ticks(seconds) == seconds * TicksPerSecond

\* (math.ceil(x) of a non-negative float x given in ticks)
CeilSeconds(ticks) == (ticks + TicksPerSecond - 1) \div TicksPerSecond

\* int(x) of a non-negative float x given in ticks: the whole seconds in it
IntSeconds(ticks) == ticks \div TicksPerSecond

\* user_limits == {} at construction
NoLimits == [u \in {} |-> 0]

\* {"timestamps": [], "blocked_until": None}; blocked_until is <<>> for None
\* and <<t>> for the time t
NewUserData == [timestamps |-> <<>>, blocked_until |-> <<>>]

\* (one record shared by every tracked user)
SetUserShared(limits, user_id, user_data) ==
    [u \in DOMAIN limits \cup {user_id} |-> user_data]

\* self.user_limits[user_id] = ...
SetUser(limits, user_id, user_data) ==
    [u \in DOMAIN limits \cup {user_id} |->
        IF u = user_id THEN user_data ELSE limits[u]]

\* [ts for ts in timestamps if ts > cutoff]
NewerThan(timestamps, cutoff) == SelectSeq(timestamps, LAMBDA ts : ts > cutoff)

\* the returned (is_limited, error_message); the message as its wording and
\* the number it carries
Allowed == [limited |-> FALSE, text |-> None, retry_after |-> 0]
Limited(text, retry_after) ==
    [limited |-> TRUE, text |-> text, retry_after |-> retry_after]

\* (a cooldown that still holds at the moment it ends)
InCooldownInclusive(user_data, now) ==
    /\ user_data.blocked_until # <<>>
    /\ now <= user_data.blocked_until[1]

\* blocked_until is not None and now < blocked_until
InCooldown(user_data, now) ==
    /\ user_data.blocked_until # <<>>
    /\ now < user_data.blocked_until[1]

\* (a limit that is reached one message early)
UnderLimitEarly(timestamps) == Len(timestamps) < MESSAGES_PER_WINDOW - 1

\* (a limit that lets one message too many through)
UnderLimitLate(timestamps) == Len(timestamps) <= MESSAGES_PER_WINDOW

\* len(timestamps) < MESSAGES_PER_WINDOW
UnderLimit(timestamps) == Len(timestamps) < MESSAGES_PER_WINDOW

\* (an is_rate_limited whose denial during cooldown starts the cooldown anew)
IsRateLimitedExtending(limits, user_id, now) ==
    LET tracked == IF user_id \in DOMAIN limits THEN limits
                   ELSE SetUser(limits, user_id, NewUserData)
        user_data == tracked[user_id]
        expired == IF user_data.blocked_until # <<>> THEN NewUserData ELSE user_data
        timestamps == NewerThan(expired.timestamps, now - Ticks(WINDOW_SECONDS))
        blocked == [timestamps |-> timestamps,
                    blocked_until |-> <<now + Ticks(COOLDOWN_SECONDS)>>]
    IN  IF InCooldown(user_data, now)
        THEN [limits |-> SetUser(tracked, user_id,
                                 [blocked EXCEPT !.timestamps = user_data.timestamps]),
              ret |-> Limited("Rate limited. Try again in",
                              IntSeconds(user_data.blocked_until[1] - now) + 1)]
        ELSE IF UnderLimit(timestamps)
        THEN [limits |-> SetUser(tracked, user_id,
                                 [timestamps |-> Append(timestamps, now),
                                  blocked_until |-> <<>>]),
              ret |-> Allowed]
        ELSE [limits |-> SetUser(tracked, user_id, blocked),
              ret |-> Limited("Too many messages. Try again in", COOLDOWN_SECONDS)]

\* is_rate_limited(user_id) called at time now: user_limits after the call,
\* and what it returns
IsRateLimited(limits, user_id, now) ==
    LET tracked == IF user_id \in DOMAIN limits THEN limits
                   ELSE SetUser(limits, user_id, NewUserData)
        user_data == tracked[user_id]
        in_cooldown == InCooldown(user_data, now)
        expired == IF user_data.blocked_until # <<>> THEN NewUserData ELSE user_data
        cutoff == now - Ticks(WINDOW_SECONDS)
        timestamps == NewerThan(expired.timestamps, cutoff)
    IN  IF in_cooldown
        THEN [limits |-> tracked,
              ret |-> Limited("Rate limited. Try again in",
                              IntSeconds(user_data.blocked_until[1] - now) + 1)]
        ELSE IF UnderLimit(timestamps)
        THEN [limits |-> SetUser(tracked, user_id,
                                 [timestamps |-> Append(timestamps, now),
                                  blocked_until |-> <<>>]),
              ret |-> Allowed]
        ELSE [limits |-> SetUser(tracked, user_id,
                                 [timestamps |-> timestamps,
                                  blocked_until |-> <<now + Ticks(COOLDOWN_SECONDS)>>]),
              ret |-> Limited("Too many messages. Try again in", COOLDOWN_SECONDS)]

\* (a get_user_stats that tracks the user and stores the trimmed window)
GetUserStatsTrimming(limits, user_id, now) ==
    LET tracked == IF user_id \in DOMAIN limits THEN limits
                   ELSE SetUser(limits, user_id, NewUserData)
        user_data == tracked[user_id]
        valid_timestamps == NewerThan(user_data.timestamps, now - Ticks(WINDOW_SECONDS))
    IN  [limits |-> SetUser(tracked, user_id,
                            [timestamps |-> valid_timestamps,
                             blocked_until |-> user_data.blocked_until]),
         ret |-> [user_id |-> user_id,
                  messages_in_window |-> Len(valid_timestamps),
                  limit |-> MESSAGES_PER_WINDOW,
                  is_blocked |-> InCooldown(user_data, now),
                  blocked_until |-> user_data.blocked_until]]

\* get_user_stats(user_id) called at time now
GetUserStats(limits, user_id, now) ==
    IF user_id \notin DOMAIN limits
    THEN [limits |-> limits,
          ret |-> [user_id |-> user_id, messages_in_window |-> 0,
                   limit |-> MESSAGES_PER_WINDOW, is_blocked |-> FALSE,
                   blocked_until |-> <<>>]]
    ELSE LET user_data == limits[user_id]
             cutoff == now - Ticks(WINDOW_SECONDS)
             valid_timestamps == NewerThan(user_data.timestamps, cutoff)
             is_blocked == /\ user_data.blocked_until # <<>>
                           /\ now < user_data.blocked_until[1]
         IN  [limits |-> limits,
              ret |-> [user_id |-> user_id,
                       messages_in_window |-> Len(valid_timestamps),
                       limit |-> MESSAGES_PER_WINDOW, is_blocked |-> is_blocked,
                       blocked_until |-> user_data.blocked_until]]

\* (a reset that empties the window and leaves the cooldown standing)
ResetUserWindowOnly(limits, user_id) ==
    IF user_id \in DOMAIN limits
    THEN SetUser(limits, user_id,
                 [timestamps |-> <<>>, blocked_until |-> limits[user_id].blocked_until])
    ELSE limits

\* reset_user(user_id)
ResetUser(limits, user_id) ==
    IF user_id \in DOMAIN limits THEN SetUser(limits, user_id, NewUserData)
    ELSE limits

\* (min(timestamps): the oldest timestamp in place of the newest)
MinOf(timestamps) ==
    CHOOSE t \in {timestamps[i] : i \in 1..Len(timestamps)} :
        \A i \in 1..Len(timestamps) : t <= timestamps[i]

\* max(timestamps) of a non-empty list
MaxOf(timestamps) ==
    CHOOSE t \in {timestamps[i] : i \in 1..Len(timestamps)} :
        \A i \in 1..Len(timestamps) : timestamps[i] <= t

\* cleanup_old_entries(max_idle_seconds) called at time now
CleanupOldEntries(limits, max_idle_seconds, now) ==
    LET last_activity(u) == IF limits[u].timestamps # <<>>
                            THEN MaxOf(limits[u].timestamps) ELSE 0
        users_to_remove == {u \in DOMAIN limits :
                              (now - last_activity(u)) > Ticks(max_idle_seconds)}
    IN  [limits |-> [u \in DOMAIN limits \ users_to_remove |-> limits[u]],
         ret |-> Cardinality(users_to_remove)]

\* no direct call made yet
NoResult == [op |-> None]

\* RateLimiter(): the defaults of the constructor's three arguments
DefaultConfig ==
    [messages_per_window |-> MESSAGES_PER_WINDOW,
     window_seconds |-> WINDOW_SECONDS, cooldown_seconds |-> COOLDOWN_SECONDS]

\* no call answered yet
NoneAllowed == [u \in UserIds |-> <<>>]

\* no handle_websocket_connection call made yet
NoHandlers == <<>>

(***************************************************************************)
(* Actions                                                                 *)
(***************************************************************************)
Init ==
    /\ active_connections = <<>>
    /\ session = [ws \in Channels |-> "new"]
    /\ queue = <<>>
    /\ nseq = 0
    /\ npub = 0
    /\ cpc = "get"
    /\ event = NoEvent
    /\ it = 0
    /\ connection = None
    /\ disconnected = <<>>
    /\ message = NoMessage
    /\ exclude = None
    /\ users = {}
    /\ messages = <<>>
    /\ handled = <<>>
    /\ changed = FALSE
    /\ trace = <<>>
    /\ user_limits = NoLimits
    /\ clock = StartTime
    /\ result = NoResult
    /\ handler = NoHandlers
    /\ consumer = "AIEventConsumer"
    /\ config = DefaultConfig
    /\ allowed = NoneAllowed

\* a session task: connection_manager.connect(websocket)
Connect(ws) ==
    /\ session[ws] = "new"
    /\ session' = [session EXCEPT ![ws] = "open"]
    /\ active_connections' = ConnectList(active_connections, ws)
    /\ changed' = (changed \/ cpc = "send")
    /\ UNCHANGED <<queue, nseq, npub, cpc, event, it, connection, disconnected,
                   message, exclude, users, messages, handled, trace>>
    /\ UNCHANGED limiter_vars
    /\ UNCHANGED <<handler, consumer, config, allowed>>

\* a session task ends: connection_manager.disconnect(websocket)
Disconnect(ws) ==
    /\ session[ws] = "open"
    /\ session' = [session EXCEPT ![ws] = "closed"]
    /\ active_connections' = DisconnectList(active_connections, ws)
    /\ changed' = (changed \/ cpc = "send")
    /\ UNCHANGED <<queue, nseq, npub, cpc, event, it, connection, disconnected,
                   message, exclude, users, messages, handled, trace>>
    /\ UNCHANGED limiter_vars
    /\ UNCHANGED <<handler, consumer, config, allowed>>

\* EventPublisher.publish(e) by a session handler or another caller
Publish(e) ==
    /\ npub < MaxPublish
    /\ e \in SessionEvents => session[e.sender_ws] = "open"
    /\ queue' = QueuePut(queue, e, nseq + 1, 0)
    /\ nseq' = nseq + 1
    /\ npub' = npub + 1
    /\ UNCHANGED <<active_connections, session, cpc, event, it, connection,
                   disconnected, message, exclude, users, messages, handled,
                   changed, trace>>
    /\ UNCHANGED limiter_vars
    /\ UNCHANGED <<handler, consumer, config, allowed>>

\* consume: queue.get returns an event; handle_event runs to its first await
ConsumerGet ==
    /\ CanGet(cpc)
    /\ queue # <<>>
    /\ LET s == LogGet([Cur EXCEPT !.event = QueueGetItem(queue),
                                   !.queue = QueueGetRest(queue)])
       IN  Becomes(IF consumer = "EventConsumer" THEN EventConsumerHandleEvent(s)
                   ELSE HandleEvent(s))
    /\ UNCHANGED <<session, npub>>
    /\ UNCHANGED limiter_vars
    /\ UNCHANGED <<handler, consumer, config, allowed>>

\* db.get_or_create_user("AIBot") returns, or raises a database error
GetUserReturn ==
    /\ cpc = "get_or_create_user"
    /\ \E raised \in BOOLEAN : Becomes(AfterGetUser(Cur, raised))
    /\ UNCHANGED <<session, npub>>
    /\ UNCHANGED limiter_vars
    /\ UNCHANGED <<handler, consumer, config, allowed>>

\* connection.send_text returns, or raises
SendReturn ==
    /\ cpc = "send"
    /\ \E ok \in BOOLEAN : Becomes(ContinueSweep(AfterSend(Cur, ok)))
    /\ UNCHANGED <<session, npub>>
    /\ UNCHANGED limiter_vars
    /\ UNCHANGED <<handler, consumer, config, allowed>>

\* asyncio.sleep(0.5) in process_request returns
SleepReturn ==
    /\ cpc = "sleep"
    /\ Becomes(AfterSleep(Cur))
    /\ UNCHANGED <<session, npub>>
    /\ UNCHANGED limiter_vars
    /\ UNCHANGED <<handler, consumer, config, allowed>>

Next ==
    \/ \E ws \in Channels : Connect(ws)
    \/ \E ws \in Channels : Disconnect(ws)
    \/ \E e \in PublishInputs : Publish(e)
    \/ ConsumerGet
    \/ GetUserReturn
    \/ SendReturn
    \/ SleepReturn

Spec == Init /\ [][Next]_vars

(***************************************************************************)
(* The rate limiter called on its own, by any caller at any time           *)
(***************************************************************************)
pipeline_vars == <<active_connections, session, queue, nseq, npub, cpc, event,
                   it, connection, disconnected, message, exclude, users,
                   messages, handled, changed, trace>>

\* time passes
Tick ==
    /\ clock < StartTime + MaxTicks
    /\ clock' = clock + 1
    /\ UNCHANGED <<user_limits, result>>
    /\ UNCHANGED pipeline_vars
    /\ UNCHANGED <<handler, consumer, config, allowed>>

\* the record of a call: its arguments, the time, the state it found, and
\* what it returned
CallRecord(op, arg, ret) ==
    [op |-> op, arg |-> arg, now |-> clock, before |-> user_limits, ret |-> ret]

CallIsRateLimited(user_id) ==
    LET r == IsRateLimited(user_limits, user_id, clock)
    IN  /\ user_limits' = r.limits
        /\ result' = CallRecord("is_rate_limited", user_id, r.ret)
        /\ UNCHANGED clock
        /\ UNCHANGED pipeline_vars
        /\ UNCHANGED <<handler, consumer, config, allowed>>

CallGetUserStats(user_id) ==
    LET r == GetUserStats(user_limits, user_id, clock)
    IN  /\ user_limits' = r.limits
        /\ result' = CallRecord("get_user_stats", user_id, r.ret)
        /\ UNCHANGED clock
        /\ UNCHANGED pipeline_vars
        /\ UNCHANGED <<handler, consumer, config, allowed>>

CallResetUser(user_id) ==
    /\ user_limits' = ResetUser(user_limits, user_id)
    /\ result' = CallRecord("reset_user", user_id, None)
    /\ UNCHANGED clock
    /\ UNCHANGED pipeline_vars
    /\ UNCHANGED <<handler, consumer, config, allowed>>

CallCleanupOldEntries(max_idle_seconds) ==
    LET r == CleanupOldEntries(user_limits, max_idle_seconds, clock)
    IN  /\ user_limits' = r.limits
        /\ result' = CallRecord("cleanup_old_entries", max_idle_seconds, r.ret)
        /\ UNCHANGED clock
        /\ UNCHANGED pipeline_vars
        /\ UNCHANGED <<handler, consumer, config, allowed>>

LimiterNext ==
    \/ Tick
    \/ \E user_id \in UserIds : CallIsRateLimited(user_id)
    \/ \E user_id \in UserIds : CallGetUserStats(user_id)
    \/ \E user_id \in UserIds : CallResetUser(user_id)
    \/ \E max_idle_seconds \in MaxIdleInputs : CallCleanupOldEntries(max_idle_seconds)

LimiterSpec == Init /\ [][LimiterNext]_vars

(***************************************************************************)
(* The registry called on its own: connect once per WebSocket object,      *)
(* disconnect for any object at any time                                   *)
(***************************************************************************)
RegistryInit ==
    /\ active_connections = <<>>
    /\ session = [ws \in Handles |-> "new"]
    /\ queue = <<>>
    /\ nseq = 0
    /\ npub = 0
    /\ cpc = "get"
    /\ event = NoEvent
    /\ it = 0
    /\ connection = None
    /\ disconnected = <<>>
    /\ message = NoMessage
    /\ exclude = None
    /\ users = {}
    /\ messages = <<>>
    /\ handled = <<>>
    /\ changed = FALSE
    /\ trace = <<>>
    /\ user_limits = NoLimits
    /\ clock = StartTime
    /\ result = NoResult
    /\ handler = NoHandlers
    /\ consumer = "AIEventConsumer"
    /\ config = DefaultConfig
    /\ allowed = NoneAllowed

\* connection_manager.connect(websocket)
RegistryConnect(ws) ==
    /\ session[ws] = "new"
    /\ session' = [session EXCEPT ![ws] = "open"]
    /\ active_connections' = ConnectList(active_connections, ws)
    /\ result' = [op |-> "connect", arg |-> ws, before |-> active_connections]
    /\ UNCHANGED <<queue, nseq, npub, cpc, event, it, connection, disconnected,
                   message, exclude, users, messages, handled, changed, trace,
                   user_limits, clock, handler, consumer, config, allowed>>

\* connection_manager.disconnect(websocket), registered or not
RegistryDisconnect(ws) ==
    /\ session' = [session EXCEPT ![ws] = IF @ = "open" THEN "closed" ELSE @]
    /\ active_connections' = DisconnectList(active_connections, ws)
    /\ result' = [op |-> "disconnect", arg |-> ws, before |-> active_connections]
    /\ UNCHANGED <<queue, nseq, npub, cpc, event, it, connection, disconnected,
                   message, exclude, users, messages, handled, changed, trace,
                   user_limits, clock, handler, consumer, config, allowed>>

RegistryNext ==
    \/ \E ws \in Handles : RegistryConnect(ws)
    \/ \E ws \in Handles : RegistryDisconnect(ws)

RegistrySpec == RegistryInit /\ [][RegistryNext]_vars

(***************************************************************************)
(* Strings as the session handler reads them.  A str is the sequence of    *)
(* its pieces: a run of whitespace, the marker "/AIBot", or a word.        *)
(***************************************************************************)
SPACE == " "
AIBOT == "/AIBot"

RECURSIVE LStrip(_)
LStrip(s) == IF s # <<>> /\ Head(s) = SPACE THEN LStrip(Tail(s)) ELSE s

RECURSIVE RStrip(_)
RStrip(s) ==
    IF s # <<>> /\ s[Len(s)] = SPACE THEN RStrip(SubSeq(s, 1, Len(s) - 1)) ELSE s

\* (a strip that leaves the string as it is)
StripNothing(s) == s

\* str.strip()
Strip(s) == RStrip(LStrip(s))

\* str.startswith(piece)
StartsWith(s, piece) == s # <<>> /\ Head(s) = piece

\* str.replace(piece, ""): every occurrence goes
Replace(s, piece) == SelectSeq(s, LAMBDA c : c # piece)

\* a JSON value read as the text or the type of a frame: a string, a
\* number, or no such key
Str(s) == [kind |-> "str", chars |-> s]
Number == [kind |-> "int", chars |-> <<>>]
Missing == [kind |-> "missing", chars |-> <<>>]

\* the frames a client sends: text that is not JSON, JSON that is not an
\* object, and objects with or without "type" and "text"
NotJson == [json |-> "invalid", type |-> Missing, text |-> Missing]
JsonArray == [json |-> "array", type |-> Missing, text |-> Missing]
Object(type, text) == [json |-> "object", type |-> type, text |-> text]

FrameTexts ==
    {<<SPACE>>, <<"hi">>, <<AIBOT, SPACE, "hi">>, <<SPACE, AIBOT, SPACE, "hi">>,
     <<AIBOT, SPACE, "hi", SPACE, AIBOT>>, <<AIBOT>>}

Frames ==
    {NotJson, JsonArray, Object(Missing, Missing), Object(Missing, Number),
     Object(Number, Str(<<"hi">>))}
    \cup {Object(Str(<<"message">>), Str(t)) : t \in FrameTexts}

\* the username query parameter: absent, empty, blank, padded, plain
Queries == {Missing, Str(<<>>), Str(<<SPACE>>), Str(<<SPACE, "alice", SPACE>>),
            Str(<<"bob">>)}

\* json.loads(message) raises JSONDecodeError
JsonLoadsRaises(frame) == frame.json = "invalid"

\* data.get(key, default) raises AttributeError: data is no dict
DataGetRaises(frame) == frame.json # "object"

\* dict.get(key, default) of a JSON object's value
ValueOr(value, default) == IF value.kind = "missing" THEN Str(default) ELSE value

\* value.strip() raises AttributeError: the value is no str
StripRaises(value) == value.kind # "str"

(***************************************************************************)
(* parse_message_event and the handler's loop body                         *)
(***************************************************************************)
\* parse_message_event raises: data.get("type", "message").strip() on a
\* type that is no str, text.startswith on a text that is no str
ParseMessageEventRaises(frame) ==
    \/ JsonLoadsRaises(frame)
    \/ DataGetRaises(frame)
    \/ StripRaises(ValueOr(frame.type, <<"message">>))
    \/ ValueOr(frame.text, <<>>).kind # "str"

\* the event parse_message_event returns
ParseMessageEvent(websocket, user_id, sender, frame) ==
    LET text == ValueOr(frame.text, <<>>).chars
    IN  IF StartsWith(text, AIBOT)
        THEN [cls |-> "AIRequestEvent", type |-> EVENT_TYPE_AI_REQUEST,
              sender_ws |-> websocket, user_id |-> user_id, sender |-> sender,
              text |-> Strip(Replace(text, AIBOT))]
        ELSE [cls |-> "UserMessageEvent", type |-> EVENT_TYPE_USER_MESSAGE,
              sender_ws |-> websocket, user_id |-> user_id, sender |-> sender,
              text |-> text]

\* (a test that takes a blank text for a message)
IsBlankUnstripped(text) == text = <<>>

\* text = msg_data.get("text", "").strip(); `if not text`
IsBlank(text) == Strip(text) = <<>>

\* what the body of the receive loop does with a frame: "error" (the
\* JSONDecodeError branch), "raise" (another exception leaves the loop),
\* "continue" (blank text), "publish"
LoopBody(frame) ==
    IF JsonLoadsRaises(frame) THEN "error"
    ELSE IF DataGetRaises(frame) THEN "raise"
    ELSE IF StripRaises(ValueOr(frame.text, <<>>)) THEN "raise"
    ELSE IF IsBlank(ValueOr(frame.text, <<>>).chars) THEN "continue"
    ELSE IF ParseMessageEventRaises(frame) THEN "raise"
    ELSE "publish"

(***************************************************************************)
(* handle_websocket_connection, one call per channel.  An action runs the  *)
(* call from one awaited I/O operation to the next.                        *)
(***************************************************************************)
\* the db argument: a ChatDatabase, which has no method
\* get_conversation_history_dict, or a store object that has one
DbKinds == {"ChatDatabase", "HistoryStore"}

HasHistoryDict(db) == db = "HistoryStore"

\* the str a username is, as the store and the events carry it
Name(s) ==
    IF s = <<"alice">> THEN "alice" ELSE IF s = <<"bob">> THEN "bob" ELSE "other"

CLOSE_CODE == 1008
CLOSE_REASON == "Username required. Connect with: ws://localhost:8765/ws?username=YourName"

ConnectedPayload(user_id, username) ==
    [type |-> "connected", user_id |-> user_id, username |-> username]

HistoryPayload(history) ==
    [type |-> "history", messages |-> history, count |-> Len(history)]

ErrorPayload == [type |-> "error", message |-> "Invalid JSON format"]

\* what get_conversation_history_dict(conversation_id) of a store that has
\* it returns: the stored messages of the conversation, oldest first
HistoryDict(rows, conversation_id) ==
    LET mine == SelectSeq(rows, LAMBDA r : r.conversation_id = conversation_id)
    IN  [i \in 1..Len(mine) |->
            [sender |-> mine[i].sender_name, text |-> mine[i].text,
             type |-> mine[i].message_type]]

\* a call not made yet
NotCalled ==
    [pc |-> "new", db |-> None, query |-> Missing, username |-> "",
     user_id |-> None, history |-> <<>>, evicted |-> FALSE, log |-> <<>>]

\* one thing the call did: the operation, the channel or frame or event it
\* was done with, the payload, and whether it returned (ok) or raised
Did(h, op, arg, payload, ok) ==
    [h EXCEPT !.log = Append(@, [op |-> op, arg |-> arg, payload |-> payload,
                                 ok |-> ok])]

At(h, pc) == [h EXCEPT !.pc = pc]

\* the frames the call has received
FramesOf(h) == SelectSeq(h.log, LAMBDA e : e.op = "receive_text" /\ e.ok)

\* how many frames sessions may send in all
MaxFrames == 1

FramesReceived ==
    LET n(ws) == Len(FramesOf(handler[ws]))
    IN  n("ws1") + n("ws2")

\* (an except branch that only prints the error)
HandlerExitKeeps(list, ws) == list

\* the two except branches of the call: connection_manager.disconnect
HandlerExit(list, ws) == DisconnectList(list, ws)

\* everything a handler call leaves alone
handler_frame == <<session, npub, cpc, event, it, connection, disconnected,
                   message, exclude, messages, handled, changed, trace,
                   user_limits, clock, consumer, config, allowed>>

\* an exception reaches the except branches of the call h: the channel is
\* taken off the registry and the call returns
Raised(ws, h) ==
    /\ active_connections' = HandlerExit(active_connections, ws)
    /\ handler' = [handler EXCEPT ![ws] = At(Did(h, "disconnect", ws, None, TRUE),
                                             "returned")]

\* the call goes on as h, the registry as it is
GoesOn(ws, h) ==
    /\ handler' = [handler EXCEPT ![ws] = h]
    /\ UNCHANGED active_connections

HandlerInit ==
    /\ active_connections = <<>>
    /\ session = [ws \in Channels |-> "new"]
    /\ queue = <<>>
    /\ nseq = 0
    /\ npub = 0
    /\ cpc = "get"
    /\ event = NoEvent
    /\ it = 0
    /\ connection = None
    /\ disconnected = <<>>
    /\ message = NoMessage
    /\ exclude = None
    /\ users = {}
    /\ messages \in StoredMessages
    /\ handled = <<>>
    /\ changed = FALSE
    /\ trace = <<>>
    /\ user_limits = NoLimits
    /\ clock = StartTime
    /\ result = NoResult
    /\ handler = [ws \in Channels |-> NotCalled]
    /\ consumer = "AIEventConsumer"
    /\ config = DefaultConfig
    /\ allowed = NoneAllowed

\* the call starts: the username is read and checked, then websocket.close
\* or, in connect, websocket.accept is awaited
HandlerCall(ws, query, db) ==
    /\ handler[ws].pc = "new"
    /\ LET username == Strip(ValueOr(query, <<>>).chars)
           h == [handler[ws] EXCEPT !.db = db, !.query = query]
       IN  IF username = <<>>
           THEN GoesOn(ws, At(h, "close"))
           ELSE GoesOn(ws, At([h EXCEPT !.username = Name(username)], "accept"))
    /\ result' = NoResult
    /\ UNCHANGED <<queue, nseq, users>>
    /\ UNCHANGED handler_frame

\* websocket.close(code=1008, reason=...) returns, or raises
HandlerCloseReturn(ws, ok) ==
    /\ handler[ws].pc = "close"
    /\ LET h == Did(handler[ws], "close", ws,
                    [code |-> CLOSE_CODE, reason |-> CLOSE_REASON], ok)
       IN  IF ok THEN GoesOn(ws, At(h, "returned")) ELSE Raised(ws, h)
    /\ result' = NoResult
    /\ UNCHANGED <<queue, nseq, users>>
    /\ UNCHANGED handler_frame

\* websocket.accept returns and connect appends the channel, or it raises
HandlerAcceptReturn(ws, ok) ==
    /\ handler[ws].pc = "accept"
    /\ LET h == Did(handler[ws], "accept", ws, None, ok)
       IN  IF ok
           THEN /\ active_connections' = ConnectList(active_connections, ws)
                /\ handler' = [handler EXCEPT ![ws] =
                                 At(Did(h, "connect", ws, None, TRUE),
                                    "get_or_create_user")]
           ELSE Raised(ws, h)
    /\ result' = NoResult
    /\ UNCHANGED <<queue, nseq, users>>
    /\ UNCHANGED handler_frame

\* get_or_create_user raises IntegrityError: the INSERT finds the username,
\* UNIQUE in table users, already there
InsertUserFails(known, username) == username \in known

\* db.get_or_create_user(username): its SELECT and fetchone return the row
\* of the username or none, or raise; the UPDATE or the INSERT is awaited next
HandlerSelectUserReturn(ws, ok) ==
    /\ handler[ws].pc = "get_or_create_user"
    /\ LET h == handler[ws]
       IN  IF ok
           THEN GoesOn(ws, At(h, IF h.username \in users THEN "update_user"
                                 ELSE "insert_user"))
           ELSE Raised(ws, Did(h, "get_or_create_user", h.username, None, FALSE))
    /\ result' = NoResult
    /\ UNCHANGED <<queue, nseq, users>>
    /\ UNCHANGED handler_frame

\* db.get_or_create_user(username): its UPDATE or INSERT and the commit
\* return and so does the call, or they raise
HandlerGetUserReturn(ws, ok) ==
    /\ handler[ws].pc \in {"update_user", "insert_user"}
    /\ LET h == handler[ws]
           unique == h.pc = "insert_user" /\ InsertUserFails(users, h.username)
       IN  IF ok /\ ~unique
           THEN /\ users' = GetOrCreateUser(users, h.username)
                /\ GoesOn(ws, At([Did(h, "get_or_create_user", h.username, None, TRUE)
                                     EXCEPT !.user_id = UserIdOf(h.username)],
                                 "add_user_to_conversation"))
           ELSE /\ UNCHANGED users
                /\ Raised(ws, Did(h, "get_or_create_user", h.username,
                                  IF unique THEN "IntegrityError" ELSE None, FALSE))
    /\ result' = NoResult
    /\ UNCHANGED <<queue, nseq>>
    /\ UNCHANGED handler_frame

\* db.add_user_to_conversation returns (it swallows its own errors); the
\* connected payload goes to send_text
HandlerAddUserReturn(ws) ==
    /\ handler[ws].pc = "add_user_to_conversation"
    /\ GoesOn(ws, At(Did(handler[ws], "add_user_to_conversation",
                         handler[ws].user_id, None, TRUE),
                     "send_connected"))
    /\ result' = NoResult
    /\ UNCHANGED <<queue, nseq, users>>
    /\ UNCHANGED handler_frame

\* send_text of the connected payload returns, or raises; then the history
\* is asked of db
HandlerSendConnectedReturn(ws, ok) ==
    /\ handler[ws].pc = "send_connected"
    /\ LET h == Did(handler[ws], "send_text", ws,
                    ConnectedPayload(handler[ws].user_id, handler[ws].username), ok)
       IN  IF ok /\ HasHistoryDict(h.db)
           THEN GoesOn(ws, At(h, "history"))
           ELSE Raised(ws, h)
    /\ result' = NoResult
    /\ UNCHANGED <<queue, nseq, users>>
    /\ UNCHANGED handler_frame

\* db.get_conversation_history_dict returns, or raises; the history payload
\* goes to send_text
HandlerHistoryReturn(ws, ok) ==
    /\ handler[ws].pc = "history"
    /\ LET h == Did(handler[ws], "get_conversation_history_dict",
                    CONVERSATION_DEFAULT, None, ok)
       IN  IF ok
           THEN GoesOn(ws, At([h EXCEPT !.history =
                                  HistoryDict(messages, CONVERSATION_DEFAULT)],
                              "send_history"))
           ELSE Raised(ws, h)
    /\ result' = NoResult
    /\ UNCHANGED <<queue, nseq, users>>
    /\ UNCHANGED handler_frame

\* send_text of the history payload returns, or raises; the loop starts
HandlerSendHistoryReturn(ws, ok) ==
    /\ handler[ws].pc = "send_history"
    /\ LET h == Did(handler[ws], "send_text", ws,
                    HistoryPayload(handler[ws].history), ok)
       IN  IF ok THEN GoesOn(ws, At(h, "receive_text")) ELSE Raised(ws, h)
    /\ result' = NoResult
    /\ UNCHANGED <<queue, nseq, users>>
    /\ UNCHANGED handler_frame

\* the state a frame finds
Found == [queue |-> queue, active_connections |-> active_connections,
          user_limits |-> user_limits, handler |-> handler]

\* receive_text returns a frame and the loop body runs to its next await
HandlerReceive(ws, frame) ==
    /\ handler[ws].pc = "receive_text"
    /\ FramesReceived < MaxFrames
    /\ LET h == Did(handler[ws], "receive_text", frame, None, TRUE)
           does == LoopBody(frame)
           e == ParseMessageEvent(ws, h.user_id, h.username, frame)
       IN  /\ IF does = "publish"
              THEN /\ queue' = QueuePut(queue, e, nseq + 1, 0)
                   /\ nseq' = nseq + 1
                   /\ GoesOn(ws, Did(h, "publish", EventDict(e), None, TRUE))
              ELSE /\ UNCHANGED <<queue, nseq>>
                   /\ IF does = "error" THEN GoesOn(ws, At(h, "send_error"))
                      ELSE IF does = "continue" THEN GoesOn(ws, h)
                      ELSE Raised(ws, h)
           /\ result' = [op |-> "receive_text", arg |-> ws, frame |-> frame,
                         does |-> does, before |-> Found]
    /\ UNCHANGED users
    /\ UNCHANGED handler_frame

\* receive_text raises WebSocketDisconnect, or another exception
HandlerReceiveRaises(ws) ==
    /\ handler[ws].pc = "receive_text"
    /\ Raised(ws, Did(handler[ws], "receive_text", None, None, FALSE))
    /\ result' = NoResult
    /\ UNCHANGED <<queue, nseq, users>>
    /\ UNCHANGED handler_frame

\* send_text of the error payload returns, or raises into the inner except
HandlerSendErrorReturn(ws, ok) ==
    /\ handler[ws].pc = "send_error"
    /\ GoesOn(ws, At(Did(handler[ws], "send_text", ws, ErrorPayload, ok),
                     "receive_text"))
    /\ result' = NoResult
    /\ UNCHANGED <<queue, nseq, users>>
    /\ UNCHANGED handler_frame

\* a broadcast whose send to the channel raised takes it off the registry
Evict(ws) ==
    /\ InList(active_connections, ws)
    /\ active_connections' = DisconnectList(active_connections, ws)
    /\ handler' = [handler EXCEPT ![ws].evicted = TRUE]
    /\ result' = NoResult
    /\ UNCHANGED <<queue, nseq, users>>
    /\ UNCHANGED handler_frame

HandlerNext ==
    \/ \E ws \in Channels, query \in Queries, db \in DbKinds : HandlerCall(ws, query, db)
    \/ \E ws \in Channels, ok \in BOOLEAN : HandlerCloseReturn(ws, ok)
    \/ \E ws \in Channels, ok \in BOOLEAN : HandlerAcceptReturn(ws, ok)
    \/ \E ws \in Channels, ok \in BOOLEAN : HandlerSelectUserReturn(ws, ok)
    \/ \E ws \in Channels, ok \in BOOLEAN : HandlerGetUserReturn(ws, ok)
    \/ \E ws \in Channels : HandlerAddUserReturn(ws)
    \/ \E ws \in Channels, ok \in BOOLEAN : HandlerSendConnectedReturn(ws, ok)
    \/ \E ws \in Channels, ok \in BOOLEAN : HandlerHistoryReturn(ws, ok)
    \/ \E ws \in Channels, ok \in BOOLEAN : HandlerSendHistoryReturn(ws, ok)
    \/ \E ws \in Channels, frame \in Frames : HandlerReceive(ws, frame)
    \/ \E ws \in Channels : HandlerReceiveRaises(ws)
    \/ \E ws \in Channels, ok \in BOOLEAN : HandlerSendErrorReturn(ws, ok)
    \/ \E ws \in Channels : Evict(ws)

HandlerSpec == HandlerInit /\ [][HandlerNext]_vars

(***************************************************************************)
(* The store called on its own: users are created, messages saved and the  *)
(* history read by any caller at any time                                  *)
(***************************************************************************)
\* how many rows table messages may come to hold
MaxRows == 3

DbUsernames == {"alice", "bob"}

\* an object that has the attributes save_message reads
Named(sender_name, text, msg_type, conversation_id) ==
    [sender_id |-> UserIdOf(sender_name), sender_name |-> sender_name,
     text |-> text, msg_type |-> msg_type, conversation_id |-> conversation_id]

\* what is handed to save_message: a Message, and objects with sender_name
SaveInputs ==
    {Message("uuid-alice", "alice", "Hello", MESSAGE_TYPE_USER, CONVERSATION_DEFAULT),
     Named("alice", "Hello", MESSAGE_TYPE_USER, CONVERSATION_DEFAULT),
     Named("alice", "Bye", MESSAGE_TYPE_USER, CONVERSATION_DEFAULT),
     Named("bob", "Hello", MESSAGE_TYPE_AI_RESPONSE, CONVERSATION_DEFAULT),
     Named("alice", "Hello", MESSAGE_TYPE_USER, "room")}

\* the limit arguments of get_conversation_history
LimitInputs == {1, 2, HISTORY_LIMIT}

\* the user_ids in table users
KnownUserIds(known) == {UserIdOf(username) : username \in known}

db_frame == <<active_connections, session, queue, nseq, npub, cpc, event, it,
              connection, disconnected, message, exclude, handled, changed,
              trace, user_limits, handler, consumer, config, allowed>>

DbGetOrCreateUser(username) ==
    /\ users' = GetOrCreateUser(users, username)
    /\ result' = [op |-> "get_or_create_user", arg |-> username, now |-> clock,
                  before |-> messages, ret |-> UserIdOf(username)]
    /\ UNCHANGED <<messages, clock>>
    /\ UNCHANGED db_frame

DbSaveMessage(m) ==
    /\ Len(messages) < MaxRows
    /\ LET raised == IF SaveMessageRaises(m) THEN "AttributeError"
                     ELSE IF ForeignKeyFails(m, KnownUserIds(users)) THEN "IntegrityError"
                     ELSE None
       IN  /\ messages' = IF raised = None THEN SaveMessage(messages, m) ELSE messages
           /\ result' = [op |-> "save_message", arg |-> m, now |-> clock,
                         before |-> messages, ret |-> raised]
    /\ UNCHANGED <<users, clock>>
    /\ UNCHANGED db_frame

DbGetConversationHistory(conversation_id, limit) ==
    /\ result' = [op |-> "get_conversation_history",
                  arg |-> [conversation_id |-> conversation_id, limit |-> limit],
                  now |-> clock, before |-> messages,
                  ret |-> GetConversationHistory(messages, conversation_id, limit)]
    /\ UNCHANGED <<users, messages, clock>>
    /\ UNCHANGED db_frame

DbNext ==
    \/ Tick
    \/ \E username \in DbUsernames : DbGetOrCreateUser(username)
    \/ \E m \in SaveInputs : DbSaveMessage(m)
    \/ \E conversation_id \in {CONVERSATION_DEFAULT, "room"}, limit \in LimitInputs :
         DbGetConversationHistory(conversation_id, limit)

DbSpec == Init /\ [][DbNext]_vars

(***************************************************************************)
(* The pipeline with a consumer of either class, and with an event that    *)
(* has no "type" among those published                                     *)
(***************************************************************************)
ConsumerClasses == {"EventConsumer", "AIEventConsumer"}

\* a dict without the key "type"
UntypedEvent == [cls |-> "dict", text |-> "Hello"]

\* a user_message with a user_id and an empty sender
NoSenderEvent ==
    [cls |-> "dict", type |-> EVENT_TYPE_USER_MESSAGE, user_id |-> "uuid-alice",
     sender |-> "", text |-> "Hello", sender_ws |-> None]

ConsumerInit ==
    /\ active_connections = <<>>
    /\ session = [ws \in Channels |-> "new"]
    /\ queue = <<>>
    /\ nseq = 0
    /\ npub = 0
    /\ cpc = "get"
    /\ event = NoEvent
    /\ it = 0
    /\ connection = None
    /\ disconnected = <<>>
    /\ message = NoMessage
    /\ exclude = None
    /\ users = {}
    /\ messages = <<>>
    /\ handled = <<>>
    /\ changed = FALSE
    /\ trace = <<>>
    /\ user_limits = NoLimits
    /\ clock = StartTime
    /\ result = NoResult
    /\ handler = NoHandlers
    /\ consumer \in ConsumerClasses
    /\ config = DefaultConfig
    /\ allowed = NoneAllowed

ConsumerNext ==
    \/ Next
    \/ \E e \in {UntypedEvent, NoSenderEvent} : Publish(e)

ConsumerSpec == ConsumerInit /\ [][ConsumerNext]_vars

(***************************************************************************)
(* Broadcasts over a registry of up to three channels whose sessions join  *)
(* and leave meanwhile                                                     *)
(***************************************************************************)
SweepChannels == {"ws1", "ws2", "ws3"}

\* the events that make the consumer call broadcast and broadcast_except
SweepEvents ==
    {e \in DictEvents : Get(e, "type", "") = EVENT_TYPE_USER_MESSAGE
                         /\ Get(e, "sender_ws", None) \in {None, "ws1"}}

SweepInit ==
    /\ active_connections = <<>>
    /\ session = [ws \in SweepChannels |-> "new"]
    /\ queue = <<>>
    /\ nseq = 0
    /\ npub = 0
    /\ cpc = "get"
    /\ event = NoEvent
    /\ it = 0
    /\ connection = None
    /\ disconnected = <<>>
    /\ message = NoMessage
    /\ exclude = None
    /\ users = {}
    /\ messages = <<>>
    /\ handled = <<>>
    /\ changed = FALSE
    /\ trace = <<>>
    /\ user_limits = NoLimits
    /\ clock = StartTime
    /\ result = NoResult
    /\ handler = NoHandlers
    /\ consumer = "AIEventConsumer"
    /\ config = DefaultConfig
    /\ allowed = NoneAllowed

SweepNext ==
    \/ \E ws \in SweepChannels : Connect(ws)
    \/ \E ws \in SweepChannels : Disconnect(ws)
    \/ \E e \in SweepEvents : Publish(e)
    \/ ConsumerGet
    \/ SendReturn

SweepSpec == SweepInit /\ [][SweepNext]_vars

(***************************************************************************)
(* A RateLimiter built with other arguments than the defaults, and only    *)
(* its is_rate_limited called                                              *)
(***************************************************************************)
\* RateLimiter(messages_per_window, window_seconds, cooldown_seconds)
LimiterConfigs ==
    {[messages_per_window |-> n, window_seconds |-> w, cooldown_seconds |-> c] :
        n \in {1, 2}, w \in {1, 2}, c \in {1, 2}}

\* (a limit that lets one message too many through)
WithinLimitLate(timestamps, messages_per_window) ==
    Len(timestamps) <= messages_per_window

\* len(timestamps) < self.MESSAGES_PER_WINDOW
WithinLimit(timestamps, messages_per_window) ==
    Len(timestamps) < messages_per_window

\* is_rate_limited(user_id) of a limiter built with cfg, called at time now
IsRateLimitedOf(cfg, limits, user_id, now) ==
    LET tracked == IF user_id \in DOMAIN limits THEN limits
                   ELSE SetUser(limits, user_id, NewUserData)
        user_data == tracked[user_id]
        expired == IF user_data.blocked_until # <<>> THEN NewUserData ELSE user_data
        cutoff == now - Ticks(cfg.window_seconds)
        timestamps == NewerThan(expired.timestamps, cutoff)
    IN  IF InCooldown(user_data, now)
        THEN [limits |-> tracked,
              ret |-> Limited("Rate limited. Try again in",
                              IntSeconds(user_data.blocked_until[1] - now) + 1)]
        ELSE IF WithinLimit(timestamps, cfg.messages_per_window)
        THEN [limits |-> SetUser(tracked, user_id,
                                 [timestamps |-> Append(timestamps, now),
                                  blocked_until |-> <<>>]),
              ret |-> Allowed]
        ELSE [limits |-> SetUser(tracked, user_id,
                                 [timestamps |-> timestamps,
                                  blocked_until |->
                                      <<now + Ticks(cfg.cooldown_seconds)>>]),
              ret |-> Limited("Too many messages. Try again in",
                              cfg.cooldown_seconds)]

ConfigInit ==
    /\ active_connections = <<>>
    /\ session = [ws \in Channels |-> "new"]
    /\ queue = <<>>
    /\ nseq = 0
    /\ npub = 0
    /\ cpc = "get"
    /\ event = NoEvent
    /\ it = 0
    /\ connection = None
    /\ disconnected = <<>>
    /\ message = NoMessage
    /\ exclude = None
    /\ users = {}
    /\ messages = <<>>
    /\ handled = <<>>
    /\ changed = FALSE
    /\ trace = <<>>
    /\ user_limits = NoLimits
    /\ clock = StartTime
    /\ result = NoResult
    /\ handler = NoHandlers
    /\ consumer = "AIEventConsumer"
    /\ config \in LimiterConfigs
    /\ allowed = NoneAllowed

ConfigIsRateLimited(user_id) ==
    LET r == IsRateLimitedOf(config, user_limits, user_id, clock)
    IN  /\ user_limits' = r.limits
        /\ result' = CallRecord("is_rate_limited", user_id, r.ret)
        /\ allowed' = IF r.ret.limited THEN allowed
                      ELSE [allowed EXCEPT ![user_id] = Append(@, clock)]
        /\ UNCHANGED <<clock, handler, consumer, config>>
        /\ UNCHANGED pipeline_vars

ConfigNext ==
    \/ Tick
    \/ \E user_id \in UserIds : ConfigIsRateLimited(user_id)

ConfigSpec == ConfigInit /\ [][ConfigNext]_vars

(***************************************************************************)
(* A session that joins while others chat: the sessions of Channels        *)
(* connect, publish user messages and leave; one more session runs         *)
(* handle_websocket_connection and then listens; the consumer relays.      *)
(* The store is one that provides what handler and consumer call:          *)
(* get_conversation_history_dict, and save_message of a Message.           *)
(***************************************************************************)
Listener == "ws3"

\* save_message(message) of such a store: the message is appended
StoreMessage(rows, m) ==
    Append(rows, [conversation_id |-> m.conversation_id,
                  sender_id |-> m.sender_id, sender_name |-> m.sender,
                  text |-> m.text, message_type |-> m.msg_type,
                  created_at |-> clock \div TicksPerSecond])

\* the user messages published: those of the session of another user than
\* the one who listens
JoinEvents ==
    {e \in SessionEvents : e.type = EVENT_TYPE_USER_MESSAGE /\ e.sender = "alice"}

\* handle_user_message once save_message has returned: the broadcast
AfterSave(s) ==
    LET user_id == Get(s.event, "user_id", "")
        sender == Get(s.event, "sender", "")
        text == Get(s.event, "text", "")
        m == Message(user_id, sender, text, MESSAGE_TYPE_USER, CONVERSATION_DEFAULT)
        broadcast_message == [sender |-> sender, text |-> text]
        sender_ws == Get(s.event, "sender_ws", None)
        saved == Log([s EXCEPT !.messages = StoreMessage(@, m)], "save", None,
                     [sender |-> m.sender, text |-> m.text], m.msg_type, TRUE)
    IN  IF Truthy(sender_ws)
        THEN BroadcastExcept(saved, broadcast_message, sender_ws)
        ELSE Broadcast(saved, broadcast_message)

JoinInit ==
    /\ active_connections = <<>>
    /\ session = [ws \in Channels |-> "new"]
    /\ queue = <<>>
    /\ nseq = 0
    /\ npub = 0
    /\ cpc = "get"
    /\ event = NoEvent
    /\ it = 0
    /\ connection = None
    /\ disconnected = <<>>
    /\ message = NoMessage
    /\ exclude = None
    /\ users = {"alice", "bob"}
    /\ messages \in StoredMessages
    /\ handled = <<>>
    /\ changed = FALSE
    /\ trace = <<>>
    /\ user_limits = NoLimits
    /\ clock = StartTime
    /\ result = NoResult
    /\ handler = [ws \in {Listener} |-> NotCalled]
    /\ consumer = "AIEventConsumer"
    /\ config = DefaultConfig
    /\ allowed = NoneAllowed

\* consume: queue.get returns a user message of a session with user_id and
\* sender; handle_user_message awaits save_message
JoinConsumerGet ==
    /\ CanGet(cpc)
    /\ queue # <<>>
    /\ Becomes([LogGet([Cur EXCEPT !.event = QueueGetItem(queue),
                                   !.queue = QueueGetRest(queue)])
                  EXCEPT !.cpc = "save_message"])
    /\ UNCHANGED <<session, npub>>
    /\ UNCHANGED limiter_vars
    /\ UNCHANGED <<handler, consumer, config, allowed>>

\* save_message returns; the broadcast runs to its first send
JoinSaveReturn ==
    /\ cpc = "save_message"
    /\ Becomes(AfterSave(Cur))
    /\ UNCHANGED <<session, npub>>
    /\ UNCHANGED limiter_vars
    /\ UNCHANGED <<handler, consumer, config, allowed>>

\* connection.send_text returns, or raises; what the listening session is
\* sent is on its record, with the row of the message relayed
JoinSendReturn ==
    /\ cpc = "send"
    /\ \E ok \in BOOLEAN :
         /\ Becomes(ContinueSweep(AfterSend(Cur, ok)))
         /\ handler' = IF connection \in DOMAIN handler
                       THEN [handler EXCEPT ![connection] =
                                Did(@, "relay", Len(messages), message, ok)]
                       ELSE handler
    /\ UNCHANGED <<session, npub>>
    /\ UNCHANGED limiter_vars
    /\ UNCHANGED <<consumer, config, allowed>>

JoinNext ==
    \/ \E ws \in Channels : Connect(ws)
    \/ \E ws \in Channels : Disconnect(ws)
    \/ \E e \in JoinEvents : Publish(e)
    \/ JoinConsumerGet
    \/ JoinSaveReturn
    \/ JoinSendReturn
    \/ HandlerCall(Listener, Str(<<"bob">>), "HistoryStore")
    \/ HandlerAcceptReturn(Listener, TRUE)
    \/ HandlerSelectUserReturn(Listener, TRUE)
    \/ HandlerGetUserReturn(Listener, TRUE)
    \/ HandlerAddUserReturn(Listener)
    \/ HandlerSendConnectedReturn(Listener, TRUE)
    \/ HandlerHistoryReturn(Listener, TRUE)
    \/ HandlerSendHistoryReturn(Listener, TRUE)

JoinSpec == JoinInit /\ [][JoinNext]_vars

(***************************************************************************)
(* Properties                                                              *)
(***************************************************************************)
\* positions of the entries of a record tr made by one of the operations ops
OpsIn(tr, ops) == {i \in 1..Len(tr) : tr[i].op \in ops}

TraceOps(ops) == OpsIn(trace, ops)

BroadcastOps == {"broadcast", "broadcast_except"}

\* the entry of the broadcast / broadcast_except call on record, and of its
\* return
Call(tr) == tr[CHOOSE i \in OpsIn(tr, BroadcastOps) : TRUE]
Return(tr) == tr[CHOOSE i \in OpsIn(tr, {"return"}) : TRUE]
Returned(tr) == OpsIn(tr, {"return"}) # {}

\* the send_text calls on record: in order, their channels, those that raised
Sends(tr) == SelectSeq(tr, LAMBDA e : e.op = "send")
SentTo(tr) == [i \in 1..Len(Sends(tr)) |-> Sends(tr)[i].ch]
Failed(tr) == {Sends(tr)[i].ch : i \in {j \in 1..Len(Sends(tr)) : ~Sends(tr)[j].ok}}
Delivered(tr) == {Sends(tr)[i].ch : i \in {j \in 1..Len(Sends(tr)) : Sends(tr)[j].ok}}

\* the replies on the queue that answer the request numbered n
RepliesTo(n) ==
    {i \in 1..Len(queue) : queue[i].type = EVENT_TYPE_AI_RESPONSE /\ queue[i].of = n}

\* C1: while consume is the only consumer, everything the handling of one
\* event does (persist, responder call, broadcast, sends) is done before the
\* next event is taken from the queue: the record of a handling holds one
\* get, at its start, and every entry after it belongs to that event.
OneHandlerAtATime ==
    \A i \in 2..Len(trace) : trace[i].op # "get" /\ trace[i].ev = trace[1].ev

\* a second event is being handled, with sends, after the first one's
\* handling ended
OneHandlerAtATimeWitness ==
    /\ Len(handled) = 2
    /\ trace[1].ev = handled[2].seq
    /\ TraceOps({"send"}) # {}
    /\ TraceOps({"process_request"}) # {}

UserMessageSavedThenRelayed ==
    LET user_id == Get(event, "user_id", "")
        sender == Get(event, "sender", "")
        text == Get(event, "text", "")
        sender_ws == Get(event, "sender_ws", None)
    IN  (/\ Ended(trace)
         /\ event.type = EVENT_TYPE_USER_MESSAGE
         /\ Truthy(user_id) /\ Truthy(sender) /\ Truthy(sender_ws))
        => /\ Cardinality(TraceOps({"save"})) = 1
           /\ \E i \in TraceOps({"save"}), j \in TraceOps({"broadcast_except"}) :
                /\ i < j
                /\ trace[i].kind = MESSAGE_TYPE_USER
                /\ trace[i].msg = [sender |-> sender, text |-> text]
                /\ trace[j].ch = sender_ws
                /\ trace[j].msg = [sender |-> sender, text |-> text]
           /\ messages # <<>>
           /\ messages[Len(messages)].conversation_id = CONVERSATION_DEFAULT
           /\ \A k \in TraceOps({"send"}) : trace[k].ch # sender_ws

\* C4: when the handling of an ai_request event has ended, it has made
\* exactly one broadcast, of the request's {sender, text} to all sessions but
\* the sender, none as AIBot, and exactly one ai_response event answering it
\* is on the queue; when the handling of that ai_response has ended, it has
\* made exactly one broadcast, of the AIBot reply, to all sessions.
AIRequestTwoBroadcasts ==
    LET sender_ws == Get(event, "sender_ws", None)
    IN  /\ (Ended(trace) /\ event.type = EVENT_TYPE_AI_REQUEST)
            => /\ Cardinality(TraceOps(BroadcastOps)) = 1
               /\ Call(trace).msg = [sender |-> Get(event, "sender", ""),
                                      text |-> Get(event, "text", "")]
               /\ Truthy(sender_ws) => /\ Call(trace).op = "broadcast_except"
                                        /\ Call(trace).ch = sender_ws
               /\ Cardinality(RepliesTo(event.seq)) = 1
        /\ (Ended(trace) /\ event.type = EVENT_TYPE_AI_RESPONSE /\ event.of # 0)
            => /\ Cardinality(TraceOps(BroadcastOps)) = 1
               /\ Call(trace).op = "broadcast"
               /\ Call(trace).msg = [sender |-> "AIBot", text |-> Get(event, "text", "")]

\* C5: when the handling of an ai_response event has ended, and the store
\* found or created the AIBot user, it has saved one message with sender
\* AIBot and kind ai_response and then called broadcast, which excludes no
\* session, with {sender: AIBot, text}.
AIResponseSavedThenBroadcast ==
    LET text == Get(event, "text", "")
    IN  (/\ Ended(trace)
         /\ event.type = EVENT_TYPE_AI_RESPONSE
         /\ TraceOps({"get_user_error"}) = {})
        => /\ Cardinality(TraceOps({"save"})) = 1
           /\ \E i \in TraceOps({"save"}), j \in TraceOps({"broadcast"}) :
                /\ i < j
                /\ trace[i].kind = MESSAGE_TYPE_AI_RESPONSE
                /\ trace[i].msg = [sender |-> "AIBot", text |-> text]
                /\ trace[j].msg = [sender |-> "AIBot", text |-> text]

\* C6: whatever the kind of the event, when its handling has ended and a
\* store call raised in it, the handler went on to the broadcast for the
\* event and no exception left the handler.
StoreFailureStillBroadcasts ==
    Ended(trace) =>
        \A i \in TraceOps({"save_error", "get_user_error"}) :
            /\ \E j \in TraceOps(BroadcastOps) : i < j
            /\ TraceOps({"raise"}) = {}

\* C7: when the handling of an ai_request event has ended, exactly one
\* ai_response event answering it has been published to the queue, an error
\* reply when intent detection raised, and no exception has reached the
\* consume loop.
OneReplyPerRequest ==
    (Ended(trace) /\ event.type = EVENT_TYPE_AI_REQUEST)
    => /\ TraceOps({"raise"}) = {}
       /\ Cardinality(RepliesTo(event.seq)) = 1
       /\ DetectIntentRaises(Get(event, "text", ""))
            => \A i \in RepliesTo(event.seq) : queue[i].text = ErrorEvent.text

\* the consumer task takes a step
ConsumerStep == ConsumerGet \/ GetUserReturn \/ SendReturn \/ SleepReturn

\* C8: the consume loop never stops: whenever an event waits on the queue
\* or is being handled, the consumer task has a next step to take (so that
\* under fair scheduling every queued event is dequeued and handled).
ConsumeLoopNeverStops ==
    (queue # <<>> \/ cpc # "get") => ENABLED ConsumerStep

SweepEndsStep ==
    Returned(trace') /\ (~Returned(trace) \/ trace[1].ev # trace'[1].ev)

\* C10: a send that raises never ends the consumer task, that is, leaves
\* broadcast / broadcast_except as an exception; and when the call returns,
\* its clean-up removes from the registry exactly the channels whose send
\* raised and changes nothing else in it.
SendFailureOnlyEvicts ==
    [][/\ cpc = "send" => cpc' # "dead"
       /\ SweepEndsStep =>
            /\ TraceOps({"raise"})' = {}
            /\ \A ws \in Channels :
                 InList(active_connections', ws)
                     <=> (InList(active_connections, ws) /\ ws \notin Failed(trace'))]_vars

\* a broadcast_except in which a send raised has returned to its caller,
\* the handling went on to task_done, and the channel is evicted
SendFailureOnlyEvictsWitness ==
    /\ Returned(trace) /\ Call(trace).op = "broadcast_except"
    /\ Failed(trace) # {}
    /\ \A ws \in Failed(trace) : ~InList(active_connections, ws)
    /\ trace[Len(trace)].op = "task_done"

\* C11: broadcast_except(payload, h) never calls send on h, and no step of
\* it changes whether h is registered; when h is not registered, the
\* channel it turns to next is always the one broadcast would turn to, and
\* a call that ran undisturbed has sent to every channel registered at its
\* start, in order, as broadcast does.
BroadcastExceptSkipsOrigin ==
    /\ [](TraceOps({"broadcast_except"}) # {} =>
            LET h == Call(trace).ch
            IN  /\ \A k \in TraceOps({"send"}) : trace[k].ch # h
                /\ (cpc = "send" /\ ~InList(active_connections, h))
                     => NextIndex(active_connections, it, h)
                            = NextIndex(active_connections, it, None)
                /\ (Returned(trace) /\ ~changed /\ ~InList(Call(trace).conns, h))
                     => SentTo(trace) = Call(trace).conns)
    /\ [][(trace' # trace /\ OpsIn(trace', {"broadcast_except"}) # {})
            => (InList(active_connections', Call(trace').ch)
                    <=> InList(active_connections, Call(trace').ch))]_vars

\* a broadcast_except that excludes a registered channel has returned: the
\* other registered channel was delivered to, the excluded one is still
\* registered
BroadcastExceptSkipsOriginWitness ==
    /\ Returned(trace) /\ Call(trace).op = "broadcast_except"
    /\ Len(Call(trace).conns) = 2
    /\ InList(Call(trace).conns, Call(trace).ch)
    /\ Delivered(trace) # {}
    /\ InList(active_connections, Call(trace).ch)

\* a broadcast_except that excludes a channel that is not registered has
\* returned after sending to both registered channels
BroadcastExceptOfStrangerReached ==
    /\ Returned(trace) /\ Call(trace).op = "broadcast_except"
    /\ ~InList(Call(trace).conns, Call(trace).ch)
    /\ Len(SentTo(trace)) >= 1

\* C12: after disconnect(ws), if ws was not registered the registry is as
\* it was; if it was registered the registry is the one before without ws,
\* the others in their order; and disconnect(ws) once more changes nothing.
DisconnectRemovesOnlyThat ==
    result.op = "disconnect" =>
        LET ws == result.arg
            before == result.before
        IN  /\ ~InList(before, ws) => active_connections = before
            /\ InList(before, ws)
                 => active_connections = SelectSeq(before, LAMBDA c : c # ws)
            /\ DisconnectList(active_connections, ws) = active_connections

\* the channel in the middle of three registered ones was disconnected
DisconnectRemovesOnlyThatWitness ==
    /\ result.op = "disconnect"
    /\ Len(result.before) = 3
    /\ result.before[2] = result.arg
    /\ active_connections = <<result.before[1], result.before[3]>>

\* disconnect was called for a channel that was not registered
DisconnectOfStrangerReached ==
    /\ result.op = "disconnect"
    /\ ~InList(result.before, result.arg)
    /\ Len(result.before) >= 2

\* C13: when a broadcast has returned, whatever sessions joined or left
\* while it was suspended in its sends, every channel that was registered
\* from the start of the call to its return was sent to exactly once, and
\* no channel was sent to twice.
SweepToleratesJoinAndLeave ==
    (Returned(trace) /\ Call(trace).op = "broadcast")
    => /\ \A i \in 1..Len(Call(trace).conns) :
            LET ws == Call(trace).conns[i]
            IN  (InList(Return(trace).conns, ws) \/ ws \in Failed(trace))
                => Cardinality({k \in TraceOps({"send"}) : trace[k].ch = ws}) = 1
       /\ \A i, j \in 1..Len(SentTo(trace)) :
            SentTo(trace)[i] = SentTo(trace)[j] => i = j

\* the latest call is is_rate_limited(u): the user, the entry it found (a
\* new one for a user not tracked), the entry it left
IsLimitedCall == result.op = "is_rate_limited"
Before(u) == IF u \in DOMAIN result.before THEN result.before[u] ELSE NewUserData
After(u) == IF u \in DOMAIN user_limits THEN user_limits[u] ELSE NewUserData

\* every timestamp of a window lies within the trailing window at time now
AllWithinWindow(timestamps, now) ==
    \A i \in 1..Len(timestamps) : now - timestamps[i] < Ticks(WINDOW_SECONDS)

\* C14: a call of is_rate_limited for a user who is not blocked and has
\* fewer than N timestamps on record (none, for a user with no prior
\* state: these are the first N calls) returns (False, None) and records
\* its time as the newest timestamp; when the earlier calls lie within the
\* window, the window is the one before plus this timestamp.
FirstCallsAllowed ==
    LET u == result.arg
    IN  (/\ IsLimitedCall
         /\ Before(u).blocked_until = <<>>
         /\ Len(Before(u).timestamps) < MESSAGES_PER_WINDOW)
        => /\ result.ret = [limited |-> FALSE, text |-> None, retry_after |-> 0]
           /\ After(u).timestamps # <<>>
           /\ After(u).timestamps[Len(After(u).timestamps)] = result.now
           /\ After(u).blocked_until = <<>>
           /\ AllWithinWindow(Before(u).timestamps, result.now)
                => After(u).timestamps = Append(Before(u).timestamps, result.now)

\* the N-th call within the window was allowed and recorded
FirstCallsAllowedWitness ==
    /\ IsLimitedCall
    /\ Before(result.arg).blocked_until = <<>>
    /\ Len(Before(result.arg).timestamps) = MESSAGES_PER_WINDOW - 1
    /\ AllWithinWindow(Before(result.arg).timestamps, result.now)
    /\ ~result.ret.limited
    /\ Len(After(result.arg).timestamps) = MESSAGES_PER_WINDOW

\* C15: a call of is_rate_limited for a user who is not blocked and has N
\* timestamps on record, all within the window, returns limited with the
\* 'Too many messages' message carrying C as its retry hint, sets
\* blocked_until to now + C and leaves the window as it was.
NextCallBlocks ==
    LET u == result.arg
    IN  (/\ IsLimitedCall
         /\ Before(u).blocked_until = <<>>
         /\ Len(Before(u).timestamps) = MESSAGES_PER_WINDOW
         /\ AllWithinWindow(Before(u).timestamps, result.now))
        => /\ result.ret.limited
           /\ result.ret.text = "Too many messages. Try again in"
           /\ result.ret.retry_after = COOLDOWN_SECONDS
           /\ After(u).blocked_until = <<result.now + Ticks(COOLDOWN_SECONDS)>>
           /\ After(u).timestamps = Before(u).timestamps

\* the call after N allowed ones within the window was denied, at a later
\* clock reading than the first of them
NextCallBlocksWitness ==
    /\ IsLimitedCall
    /\ Before(result.arg).blocked_until = <<>>
    /\ Len(Before(result.arg).timestamps) = MESSAGES_PER_WINDOW
    /\ Before(result.arg).timestamps[1] < result.now
    /\ result.ret.limited
    /\ After(result.arg).blocked_until # <<>>

\* C16: a call of is_rate_limited for a blocked user at a time now >=
\* blocked_until returns not-limited, clears blocked_until, and leaves the
\* window holding that call's timestamp and nothing else.
CooldownExpiryStartsFresh ==
    LET u == result.arg
    IN  (/\ IsLimitedCall
         /\ Before(u).blocked_until # <<>>
         /\ result.now >= Before(u).blocked_until[1])
        => /\ ~result.ret.limited
           /\ result.ret.text = None
           /\ After(u).blocked_until = <<>>
           /\ After(u).timestamps = <<result.now>>

\* a user blocked with a full window called again when the cooldown had
\* run out, and was let through with a fresh window
CooldownExpiryStartsFreshWitness ==
    /\ IsLimitedCall
    /\ Before(result.arg).blocked_until # <<>>
    /\ result.now >= Before(result.arg).blocked_until[1]
    /\ Len(Before(result.arg).timestamps) = MESSAGES_PER_WINDOW
    /\ After(result.arg).timestamps = <<result.now>>

\* the latest call found the user in a cooldown that had not run out
DeniedInCooldown ==
    /\ IsLimitedCall
    /\ Before(result.arg).blocked_until # <<>>
    /\ result.now < Before(result.arg).blocked_until[1]

\* the cooldown that remained at the latest call, in ticks
Remaining == Before(result.arg).blocked_until[1] - result.now

\* C17 as stated: a call of is_rate_limited for a blocked user at a time
\* now < blocked_until is denied, and the number in its message is
\* ceil(blocked_until - now) + 1.
RetryAfterIsCeilPlusOne ==
    DeniedInCooldown
    => /\ result.ret.limited
       /\ result.ret.retry_after = CeilSeconds(Remaining) + 1

\* C17, amended: such a call is denied with the 'Rate limited' message and
\* changes nothing of the user's entry; the number in its message is
\* floor(blocked_until - now) + 1, the whole number r with
\* r - 1 <= blocked_until - now < r: that is ceil(blocked_until - now) for
\* a fractional remaining cooldown, and ceil(blocked_until - now) + 1 only
\* for a whole number of seconds.
RetryAfterIsFloorPlusOne ==
    DeniedInCooldown
    => LET r == result.ret.retry_after
       IN  /\ result.ret.limited
           /\ result.ret.text = "Rate limited. Try again in"
           /\ (r - 1) * TicksPerSecond <= Remaining
           /\ Remaining < r * TicksPerSecond
           /\ Remaining % TicksPerSecond # 0 => r = CeilSeconds(Remaining)
           /\ Remaining % TicksPerSecond = 0 => r = CeilSeconds(Remaining) + 1
           /\ After(result.arg) = Before(result.arg)

\* a blocked user was denied with a fractional cooldown of more than a
\* second remaining
RetryAfterIsFloorPlusOneWitness ==
    /\ DeniedInCooldown
    /\ Remaining % TicksPerSecond # 0
    /\ Remaining > TicksPerSecond
    /\ result.ret.retry_after = CeilSeconds(Remaining)

\* C18: after get_user_stats(u), user_limits is what it was before the
\* call (no entry created, no window trimmed, no blocked_until cleared);
\* the call reports as messages_in_window the number of stored timestamps
\* newer than now - W, as is_blocked whether blocked_until is set and
\* now < blocked_until, and blocked_until as stored.
StatsReadOnly ==
    result.op = "get_user_stats" =>
        LET u == result.arg
            stored == Before(u).timestamps
        IN  /\ user_limits = result.before
            /\ DOMAIN user_limits = DOMAIN result.before
            /\ result.ret.messages_in_window
                 = Cardinality({i \in 1..Len(stored) :
                                  stored[i] > result.now - Ticks(WINDOW_SECONDS)})
            /\ result.ret.is_blocked
                 <=> (/\ Before(u).blocked_until # <<>>
                      /\ result.now < Before(u).blocked_until[1])
            /\ result.ret.blocked_until = Before(u).blocked_until
            /\ result.ret.limit = MESSAGES_PER_WINDOW

\* get_user_stats was called for a user whose stored window is stale and
\* whose cooldown has run out: it reports neither, and both stay stored
StatsReadOnlyWitness ==
    /\ result.op = "get_user_stats"
    /\ result.arg \in DOMAIN user_limits
    /\ Len(user_limits[result.arg].timestamps) = MESSAGES_PER_WINDOW
    /\ user_limits[result.arg].blocked_until # <<>>
    /\ result.ret.messages_in_window = 0
    /\ ~result.ret.is_blocked

\* get_user_stats was called for a user not tracked
StatsOfStrangerReached ==
    /\ result.op = "get_user_stats"
    /\ result.arg \notin DOMAIN user_limits
    /\ DOMAIN user_limits # {}

\* C19: after reset_user(u), in whatever state u was, u has an empty window
\* and no blocked_until (a user never seen stays untracked, and has
\* neither), get_user_stats(u) reports no message, no block and no
\* blocked_until, is_rate_limited(u) called next, now or later, returns
\* not-limited, and every other user's entry is what it was.
ResetClearsUser ==
    result.op = "reset_user" =>
        LET u == result.arg
            stats == GetUserStats(user_limits, u, clock).ret
        IN  /\ u \in DOMAIN result.before
                 => /\ u \in DOMAIN user_limits
                    /\ user_limits[u].timestamps = <<>>
                    /\ user_limits[u].blocked_until = <<>>
            /\ u \notin DOMAIN result.before => u \notin DOMAIN user_limits
            /\ stats.messages_in_window = 0
            /\ ~stats.is_blocked
            /\ stats.blocked_until = <<>>
            /\ \A t \in clock..(StartTime + MaxTicks) :
                 ~IsRateLimited(user_limits, u, t).ret.limited
            /\ \A v \in UserIds \ {u} :
                 /\ v \in DOMAIN user_limits <=> v \in DOMAIN result.before
                 /\ v \in DOMAIN result.before => user_limits[v] = result.before[v]

\* reset_user was called for a user in cooldown while another user was
\* blocked too: the one is cleared, the other still blocked
ResetClearsUserWitness ==
    /\ result.op = "reset_user"
    /\ result.arg \in DOMAIN result.before
    /\ InCooldown(result.before[result.arg], result.now)
    /\ user_limits[result.arg] = NewUserData
    /\ \E v \in DOMAIN user_limits \ {result.arg} : InCooldown(user_limits[v], clock)

\* reset_user was called for a user never seen
ResetOfStrangerReached ==
    /\ result.op = "reset_user"
    /\ result.arg \notin DOMAIN result.before
    /\ DOMAIN result.before # {}

\* the user's entry e was idle for more than max_idle_seconds at time now:
\* every recorded timestamp, or 0 when there is none, lies more than that
\* before now
IdleFor(e, max_idle_seconds, now) ==
    IF e.timestamps = <<>> THEN now - 0 > Ticks(max_idle_seconds)
    ELSE \A i \in 1..Len(e.timestamps) :
            now - e.timestamps[i] > Ticks(max_idle_seconds)

\* C20: after cleanup_old_entries(max_idle), the tracked users are those
\* tracked before whose newest recorded timestamp (0 if the window is
\* empty) lies no more than max_idle before now, their entries are what
\* they were, and the call has returned the number of entries removed.
CleanupRemovesIdle ==
    result.op = "cleanup_old_entries" =>
        LET idle == {u \in DOMAIN result.before :
                        IdleFor(result.before[u], result.arg, result.now)}
        IN  /\ DOMAIN user_limits = DOMAIN result.before \ idle
            /\ \A u \in DOMAIN user_limits : user_limits[u] = result.before[u]
            /\ result.ret = Cardinality(idle)
            /\ result.ret = Cardinality(DOMAIN result.before)
                               - Cardinality(DOMAIN user_limits)

\* cleanup_old_entries removed one of two tracked users and kept the other,
\* whose window holds an older and a newer timestamp
CleanupRemovesIdleWitness ==
    /\ result.op = "cleanup_old_entries"
    /\ Cardinality(DOMAIN result.before) = 2
    /\ result.ret = 1
    /\ \E u \in DOMAIN user_limits :
         /\ Len(user_limits[u].timestamps) >= 2
         /\ user_limits[u].timestamps[1] < user_limits[u].timestamps[2]

\* cleanup_old_entries kept a user with an empty window
CleanupKeepsEmptyReached ==
    /\ result.op = "cleanup_old_entries"
    /\ \E u \in DOMAIN user_limits : user_limits[u].timestamps = <<>>

\* the entry e is that of an active user at time now: Blocked with
\* blocked_until still ahead, or with a timestamp inside the current window
ActiveAt(e, now) ==
    \/ InCooldown(e, now)
    \/ NewerThan(e.timestamps, now - Ticks(WINDOW_SECONDS)) # <<>>

\* C21: for any max_idle, after cleanup_old_entries the next
\* is_rate_limited call for a user who was active when cleanup ran (Blocked
\* with blocked_until ahead, or with timestamps inside the window) returns
\* what it would have returned without the cleanup, and leaves the same
\* window for that user.
CleanupKeepsActiveUsers ==
    result.op = "cleanup_old_entries" =>
        \A u \in DOMAIN result.before :
            ActiveAt(result.before[u], result.now) =>
                \A t \in clock..(StartTime + MaxTicks) :
                    /\ IsRateLimited(user_limits, u, t).ret
                         = IsRateLimited(result.before, u, t).ret
                    /\ IsRateLimited(user_limits, u, t).limits[u]
                         = IsRateLimited(result.before, u, t).limits[u]

\* user_limits cut down to the entry of user u
OnlyUser(limits, u) == [v \in DOMAIN limits \cap {u} |-> limits[v]]

\* C22: is_rate_limited(u) reads and writes only u's entry: every other
\* user is tracked after the call exactly if tracked before, with the same
\* window and blocked_until, and the call returns, and leaves for u, what it
\* would with no other user tracked; so another user being Blocked never
\* gets u's call denied.
LimiterIsPerUser ==
    result.op = "is_rate_limited" =>
        LET u == result.arg
            alone == IsRateLimited(OnlyUser(result.before, u), u, result.now)
        IN  /\ \A v \in UserIds \ {u} :
                 /\ v \in DOMAIN user_limits <=> v \in DOMAIN result.before
                 /\ v \in DOMAIN result.before => user_limits[v] = result.before[v]
            /\ result.ret = alone.ret
            /\ user_limits[u] = alone.limits[u]

\* a user's call was allowed and recorded while another user was Blocked
\* with blocked_until ahead, and that user is still Blocked
LimiterIsPerUserWitness ==
    /\ result.op = "is_rate_limited"
    /\ ~result.ret.limited
    /\ \E v \in DOMAIN result.before \ {result.arg} :
         /\ InCooldown(result.before[v], result.now)
         /\ InCooldown(user_limits[v], clock)
    /\ Len(user_limits[result.arg].timestamps) = 2

\* the handle_websocket_connection call on channel ws: its record, what it
\* did, the positions in its log of the operations ops
Ops(ws, ops) == OpsIn(handler[ws].log, ops)

\* the username parameter of the call on ws is missing, empty or blank
NoUsername(ws) ==
    \/ handler[ws].query.kind = "missing"
    \/ \A i \in 1..Len(handler[ws].query.chars) : handler[ws].query.chars[i] = SPACE

\* C23: a call whose username parameter is missing, empty or only
\* whitespace does nothing but close the connection with code 1008 and a
\* reason: it never accepts the connection, its channel is never in the
\* registry, it asks the store for no user, no payload is sent to the
\* channel, and once the close has returned or raised the call has returned.
NoUsernameIsRejected ==
    \A ws \in Channels :
        (handler[ws].pc # "new" /\ NoUsername(ws)) =>
            /\ handler[ws].pc \in {"close", "returned"}
            /\ Ops(ws, {"accept", "connect", "get_or_create_user",
                        "add_user_to_conversation", "send_text",
                        "receive_text", "publish"}) = {}
            /\ ~InList(active_connections, ws)
            /\ handler[ws].pc = "returned"
                 => /\ Ops(ws, {"close"}) = {1}
                    /\ handler[ws].log[1].payload.code = CLOSE_CODE
                    /\ handler[ws].log[1].payload.reason # ""
            /\ \A other \in Channels :
                 \A i \in Ops(other, {"send_text"}) : handler[other].log[i].arg # ws
            /\ Name(Strip(ValueOr(handler[ws].query, <<>>).chars)) \notin users

\* a call with a blank username was closed while the other channel's call,
\* with a username, was accepted, registered and given its user
NoUsernameIsRejectedWitness ==
    \E ws \in Channels, other \in Channels :
        /\ handler[ws].query = Str(<<SPACE>>)
        /\ handler[ws].pc = "returned"
        /\ handler[ws].log[1].ok
        /\ InList(active_connections, other)
        /\ users # {}

\* the operations of a handshake, in the order the claim gives them
HANDSHAKE == <<"accept", "connect", "get_or_create_user",
               "add_user_to_conversation", "send_text",
               "get_conversation_history_dict", "send_text">>

\* nothing the call on ws awaited has raised, and no frame has reached it
Undisturbed(ws) ==
    /\ \A i \in 1..Len(handler[ws].log) : handler[ws].log[i].ok
    /\ FramesOf(handler[ws]) = <<>>

\* C24: a call with a username, as long as nothing it awaits raises and
\* before it reads a frame, registers the channel, resolves the user, sends
\* the connected payload with user_id and username and then one history
\* payload holding the stored messages of the default conversation with
\* their count, in this order; it does not return, and it is in the receive
\* loop with its channel registered (unless a broadcast evicted it).
HandshakeThenLoop ==
    \A ws \in Channels :
        LET h == handler[ws]
        IN  (h.pc # "new" /\ ~NoUsername(ws) /\ Undisturbed(ws)) =>
                /\ h.pc # "returned"
                /\ \A i \in 1..Len(h.log) :
                     i <= Len(HANDSHAKE) => h.log[i].op = HANDSHAKE[i]
                /\ Len(h.log) >= 5
                     => h.log[5].payload = ConnectedPayload(h.user_id, h.username)
                /\ Len(h.log) >= 7
                     => /\ h.log[7].payload.type = "history"
                        /\ h.log[7].payload.messages
                             = HistoryDict(messages, CONVERSATION_DEFAULT)
                        /\ h.log[7].payload.count
                             = Len(SelectSeq(messages, LAMBDA r :
                                     r.conversation_id = CONVERSATION_DEFAULT))
                /\ h.pc = "receive_text" => Len(h.log) = Len(HANDSHAKE)
                /\ (h.pc = "receive_text" /\ ~h.evicted)
                     => InList(active_connections, ws)

\* the frame is unparsable as structured input: not JSON, or JSON that is
\* not an object, or an object whose text is not a string
Unparsable(frame) ==
    \/ frame.json # "object"
    \/ frame.text.kind = "int"

\* the frame was parsed and its text is a string, or absent
Parsed(frame) == frame.json = "object" /\ frame.text.kind # "int"

\* the latest step of any session was the receipt of a frame
FrameReceived == result.op = "receive_text"

\* what the receipt of the latest frame left as it was
SameQueue == queue = result.before.queue
SameRegistry == active_connections = result.before.active_connections
OthersUntouched ==
    \A ws \in Channels \ {result.arg} : handler[ws] = result.before.handler[ws]

\* C25: for every received frame that is unparsable (not valid JSON, or JSON
\* that is not an object with a string text) the handler hands an error
\* payload to send_text of that session and of no other, publishes no
\* event, leaves the session registered and, whether the send returns or
\* raises, is back at receive_text: the frame never ends the session.
MalformedFrameGetsError ==
    /\ (FrameReceived /\ Unparsable(result.frame)) =>
          /\ handler[result.arg].pc = "send_error"
          /\ SameQueue
          /\ SameRegistry
          /\ OthersUntouched
    /\ \A ws \in Channels :
         LET log == handler[ws].log
         IN  \A i \in 1..(Len(log) - 1) :
                (log[i].op = "receive_text" /\ log[i].ok /\ Unparsable(log[i].arg))
                => /\ log[i + 1].op = "send_text"
                   /\ log[i + 1].arg = ws
                   /\ log[i + 1].payload = ErrorPayload
                   /\ handler[ws].pc # "returned" \/ i + 1 < Len(log)

\* the text of the frame, a string or absent, is empty or only whitespace
BlankText(frame) ==
    \A i \in 1..Len(frame.text.chars) : frame.text.chars[i] = SPACE

\* C26: a parsed frame whose text is empty or only whitespace publishes no
\* event, sends no payload to any session, and changes neither the registry
\* nor the rate limiter's state; the handler is back at receive_text, and
\* the frame's receipt is all that its call has on record for it.
BlankFrameIsSkipped ==
    (FrameReceived /\ Parsed(result.frame) /\ BlankText(result.frame)) =>
        LET ws == result.arg
            was == result.before.handler[ws]
        IN  /\ SameQueue
            /\ nseq = Len(queue)
            /\ SameRegistry
            /\ user_limits = result.before.user_limits
            /\ OthersUntouched
            /\ handler[ws].pc = "receive_text"
            /\ Len(handler[ws].log) = Len(was.log) + 1
            /\ handler[ws].log[Len(handler[ws].log)].op = "receive_text"
            /\ \A other \in Channels :
                 Ops(other, {"send_text"})
                    = OpsIn(result.before.handler[other].log, {"send_text"})

\* a registered session received a frame whose text is whitespace while
\* the other session was registered too
BlankFrameIsSkippedWitness ==
    /\ FrameReceived
    /\ result.frame.text = Str(<<SPACE>>)
    /\ Len(active_connections) = 2
    /\ handler[result.arg].pc = "receive_text"

\* C27: for every frame with non-empty text the handler asks the rate
\* limiter about the session's user_id before it publishes, so that the
\* limiter's state is what is_rate_limited leaves; when the limiter reports
\* limited, the handler hands an error payload to send_text of that session
\* only and publishes nothing, the session staying registered and open.
RateLimiterGuardsPublish ==
    (FrameReceived /\ Parsed(result.frame) /\ ~BlankText(result.frame)) =>
        LET ws == result.arg
            asked == IsRateLimited(result.before.user_limits,
                                   handler[ws].user_id, clock)
        IN  /\ user_limits = asked.limits
            /\ asked.ret.limited
                 => /\ handler[ws].pc = "send_error"
                    /\ SameQueue
                    /\ SameRegistry
                    /\ OthersUntouched

\* C28: every accepted frame (parsed, its text not blank) publishes exactly
\* one event, carrying the session's user_id, username and channel: when
\* the trimmed text begins with the marker /AIBot, an ai_request whose text
\* is the input without that leading marker, trimmed; otherwise a
\* user_message with the text.
AcceptedFramePublishesOne ==
    (FrameReceived /\ Parsed(result.frame) /\ ~BlankText(result.frame)) =>
        LET ws == result.arg
            text == result.frame.text.chars
            request == StartsWith(Strip(text), AIBOT)
            published == queue[Len(queue)]
        IN  /\ Len(queue) = Len(result.before.queue) + 1
            /\ SubSeq(queue, 1, Len(queue) - 1) = result.before.queue
            /\ published.user_id = handler[ws].user_id
            /\ published.sender = handler[ws].username
            /\ published.sender_ws = ws
            /\ published.type = IF request THEN EVENT_TYPE_AI_REQUEST
                                ELSE EVENT_TYPE_USER_MESSAGE
            /\ published.text = IF request THEN Strip(Tail(Strip(text))) ELSE text

\* C29: whenever handle_websocket_connection has returned, be it after a
\* transport disconnect or after any other exception at any step from the
\* registration on, the session's channel is not in the registry, and the
\* last thing the call did after registering was its disconnect; so also
\* when a broadcast had evicted the channel before.
ReturnedMeansUnregistered ==
    \A ws \in Channels :
        handler[ws].pc = "returned" =>
            /\ ~InList(active_connections, ws)
            /\ Ops(ws, {"connect"}) # {}
                 => handler[ws].log[Len(handler[ws].log)].op = "disconnect"

\* a call returned from its receive loop on a transport disconnect after a
\* broadcast had evicted its channel, while the other channel stays
\* registered
ReturnedMeansUnregisteredWitness ==
    \E ws \in Channels, other \in Channels :
        /\ handler[ws].pc = "returned"
        /\ handler[ws].evicted
        /\ \E i \in Ops(ws, {"receive_text"}) : ~handler[ws].log[i].ok
        /\ InList(active_connections, other)

\* the rows of the default conversation, in the order they were written
Written(rows) == SelectSeq(rows, LAMBDA r : r.conversation_id = CONVERSATION_DEFAULT)

\* the history lists the first n rows written, each with the sender, the
\* text and the kind it was saved with, and nothing else
ListsFirst(history, rows, n) ==
    /\ Len(history) = n
    /\ \A i \in 1..n :
         /\ history[i].sender = Written(rows)[i].sender_name
         /\ history[i].text = Written(rows)[i].text
         /\ history[i].type = Written(rows)[i].message_type

\* save_message has just succeeded for a message of the default
\* conversation
SavedToDefault ==
    /\ result.op = "save_message"
    /\ result.ret = None
    /\ result.arg.conversation_id = CONVERSATION_DEFAULT

\* the last row written is the message just saved
LastIsSaved(history) ==
    /\ history # <<>>
    /\ history[Len(history)].sender = result.arg.sender_name
    /\ history[Len(history)].text = result.arg.text
    /\ history[Len(history)].type = result.arg.msg_type

GetOrCreateUserIsIdempotent ==
    \A ws \in Channels :
        /\ \A i \in Ops(ws, {"get_or_create_user"}) :
             handler[ws].log[i].payload # "IntegrityError"
        /\ \A other \in Channels :
             (/\ handler[ws].username = handler[other].username
              /\ handler[ws].user_id # None /\ handler[other].user_id # None)
             => handler[ws].user_id = handler[other].user_id

\* the types a consumer of the class routes to a handler
RoutedTypes(class) ==
    IF class = "EventConsumer"
    THEN {EVENT_TYPE_USER_MESSAGE, EVENT_TYPE_AI_RESPONSE}
    ELSE {EVENT_TYPE_USER_MESSAGE, EVENT_TYPE_AI_REQUEST, EVENT_TYPE_AI_RESPONSE}

\* the event taken last matches no routing branch of the consumer
Unrouted == trace # <<>> /\ Get(event, "type", "") \notin RoutedTypes(consumer)

\* C32: an event whose type matches no routing branch of the consumer (for
\* an EventConsumer also ai_request) is taken from the queue and marked
\* done, and nothing else is done for it: nothing is saved, the responder is
\* not called and publishes no reply, nothing is broadcast or sent; the
\* consumer is back at queue.get for the next event.
UnroutedEventIsDropped ==
    Unrouted =>
        /\ Len(trace) = 2
        /\ trace[1].op = "get" /\ trace[1].ev = event.seq
        /\ trace[2].op = "task_done"
        /\ cpc = "get"
        /\ \A i \in 1..Len(queue) : queue[i].of # event.seq

\* an EventConsumer has dropped an ai_request that it took after another
\* event
UnroutedEventIsDroppedWitness ==
    /\ Unrouted
    /\ consumer = "EventConsumer"
    /\ Get(event, "type", "") = EVENT_TYPE_AI_REQUEST
    /\ Len(handled) = 2

\* the channels the broadcast on record has called send on
Attempted(tr) == Failed(tr) \cup Delivered(tr)

\* a step of the consumer task inside a broadcast sweep
SweepStep == cpc = "send" /\ session' = session

\* C33: during a sweep the broadcast removes nothing from the registry: it
\* changes the registry only in the step in which it returns, and by then
\* it has called send on every channel that was still registered (and not
\* the excluded one), so that a channel whose send raised is removed only
\* after send was attempted on all the others.
RemovalOnlyAfterFullSweep ==
    [][SweepStep =>
        /\ ~Returned(trace') => active_connections' = active_connections
        /\ active_connections' # active_connections =>
             \A ws \in SweepChannels :
                 (InList(active_connections, ws) /\ ws # exclude)
                 => ws \in Attempted(trace')]_vars

\* the event taken last is a user_message without user_id or without sender
Anonymous ==
    /\ trace # <<>>
    /\ Get(event, "type", "") = EVENT_TYPE_USER_MESSAGE
    /\ (Get(event, "user_id", "") = "" \/ Get(event, "sender", "") = "")

\* C34: for a user_message event with an empty user_id or an empty sender
\* the consumer makes no call of save_message, and it makes the one
\* broadcast of {sender, text} for the event: broadcast_except when the
\* event has an origin channel, broadcast otherwise.
AnonymousMessageOnlyBroadcast ==
    Anonymous =>
        /\ TraceOps({"save", "save_error"}) = {}
        /\ Cardinality(TraceOps(BroadcastOps)) = 1
        /\ Call(trace).msg = [sender |-> Get(event, "sender", ""),
                              text |-> Get(event, "text", "")]
        /\ Call(trace).op = IF Truthy(Get(event, "sender_ws", None))
                            THEN "broadcast_except" ELSE "broadcast"

\* the handling of a user_message with an empty sender, the second event
\* taken, has ended after a send to a session
AnonymousMessageOnlyBroadcastWitness ==
    /\ Anonymous /\ Ended(trace)
    /\ Get(event, "sender", "") = ""
    /\ Delivered(trace) # {}
    /\ Len(handled) = 2

\* the calls of u answered not limited in the span of length W that ends
\* at time t (and is open at its start, as the window of the limiter is)
AllowedInSpan(u, t) ==
    {i \in 1..Len(allowed[u]) :
        /\ allowed[u][i] > t - Ticks(config.window_seconds)
        /\ allowed[u][i] <= t}

\* C35 as stated: for every configuration (N, W, C) and every user, no time
\* span of length W holds more than N calls of is_rate_limited answered
\* not limited, also when a cooldown expires inside the span.
AtMostNInAnySpan ==
    \A u \in UserIds : \A i \in 1..Len(allowed[u]) :
        Cardinality(AllowedInSpan(u, allowed[u][i])) <= config.messages_per_window

\* C35, amended: the bound holds for every configuration whose cooldown C
\* is not shorter than its window W.
AtMostNInAnySpanIfCooldownCoversWindow ==
    config.cooldown_seconds >= config.window_seconds => AtMostNInAnySpan

\* with C >= W, a call that found the user's cooldown expired was answered
\* not limited, after N earlier calls answered so and one denied
AtMostNInAnySpanWitness ==
    /\ config.cooldown_seconds >= config.window_seconds
    /\ IsLimitedCall /\ ~result.ret.limited
    /\ Before(result.arg).blocked_until # <<>>
    /\ Len(allowed[result.arg]) > config.messages_per_window
    /\ allowed[result.arg][Len(allowed[result.arg])] = result.now

\* the times from which on a user with the entry e is Open
OpenFrom(e) == IF e.blocked_until = <<>> THEN {} ELSE {e.blocked_until[1]}

\* C36: a call of is_rate_limited that is denied during the cooldown
\* changes nothing: user_limits is what it was before the call, so the
\* user's window and blocked_until are the same and the time at which the
\* user becomes Open again is not postponed, however often the user calls.
DeniedCallChangesNothing ==
    DeniedInCooldown
    => /\ result.ret.limited
       /\ user_limits = result.before
       /\ After(result.arg).timestamps = Before(result.arg).timestamps
       /\ OpenFrom(After(result.arg)) = OpenFrom(Before(result.arg))

\* a user blocked for some time already was denied again, with less than
\* the cooldown remaining
DeniedCallChangesNothingWitness ==
    /\ DeniedInCooldown
    /\ Remaining < Ticks(COOLDOWN_SECONDS) - 1
    /\ Len(After(result.arg).timestamps) = MESSAGES_PER_WINDOW

\* what the listening session has been sent by broadcasts, and the rows its
\* history payload lists
Relays == SelectSeq(handler[Listener].log, LAMBDA e : e.op = "relay" /\ e.ok)
InHistory(row) == row <= Len(handler[Listener].history)
Relayed(row) == \E k \in 1..Len(Relays) : Relays[k].arg = row

\* the listening session has completed its handshake and is registered
Listening ==
    /\ handler[Listener].pc = "receive_text"
    /\ InList(active_connections, Listener)

SentPayload(type) ==
    \E j \in 1..Len(handler[Listener].log) :
        /\ handler[Listener].log[j].op = "send_text"
        /\ handler[Listener].log[j].ok
        /\ handler[Listener].log[j].payload.type = type

NoEmptyTextPublished ==
    \A i \in 1..Len(queue) : Strip(queue[i].text) # <<>>

\* C40: once a broadcast has evicted a session's channel, that session
\* publishes no further events: whenever a handler publishes the event of a
\* frame, its channel is in the registry at that moment.
PublisherIsRegistered ==
    (result.op = "receive_text" /\ result.does = "publish")
        => InList(result.before.active_connections, result.arg)

====
